---- MODULE Spec2Model ----
(***************************************************************************)
(* Verification model of the ndc-mongodb query-translation core:           *)
(*   - query/response.rs   (response serializer)                           *)
(*   - query/foreach.rs    (foreach / variable-set fan-out)                *)
(*   - configuration.rs    (catalog validation)                            *)
(* Maps (BTreeMap, IndexMap, bson::Document, serde_json::Map) are          *)
(* functions from string keys; Vec is a sequence; Option and Result are    *)
(* tagged records.                                                         *)
(***************************************************************************)
EXTENDS Integers, Sequences, FiniteSets, TLC

VARIABLES
    pc,                  \* position of the run: which step has been taken
    query_plan,          \* response.rs: the QueryPlan given to the serializer
    response_documents,  \* response.rs: Vec<bson::Document> returned by MongoDB
    response,            \* response.rs: Result<QueryResponse>
    parent_type,         \* response.rs: parent column type of a nested selection
    nested_field,        \* response.rs: the NestedField selection
    nested_type,         \* response.rs: Option<Type>, result of type_for_nested_field
    queryRequest,        \* foreach.rs: the QueryRequest being executed
    foreachVariants,     \* foreach.rs: Option<Vec<ForeachVariant>> of the request
    foreachPipeline,     \* foreach.rs: Result<Pipeline> of pipeline_for_foreach
    serialized,          \* configuration.rs: the schema, native mutations and native queries read
    validated,           \* configuration.rs: anyhow::Result<Configuration> of validate
    argumentCall,        \* arguments.rs: the declared parameters and the arguments of a call
    resolution,          \* arguments.rs: Result of resolve_arguments
    comparison,          \* comparison_function.rs: a function, a column and a value
    matchQuery,          \* comparison_function.rs: Document of mongodb_match_query
    aggregationExpression, \* comparison_function.rs: Document of mongodb_aggregation_expression
    operatorName,        \* comparison_function.rs: the operator name of a request
    parsedFunction,      \* comparison_function.rs: Result of from_graphql_name
    aggregateLookup,     \* scalar_types_capabilities.rs: a scalar type name and a function name
    aggregateDefinition, \* scalar_types_capabilities.rs: the definition published for them
    operatorLookup,      \* scalar_types_capabilities.rs: a scalar type name and an operator name
    operatorDefinition   \* scalar_types_capabilities.rs: the definition published for them

vars == <<pc, query_plan, response_documents, response,
          parent_type, nested_field, nested_type,
          queryRequest, foreachVariants, foreachPipeline,
          serialized, validated, argumentCall, resolution,
          comparison, matchQuery, aggregationExpression, operatorName, parsedFunction,
          aggregateLookup, aggregateDefinition, operatorLookup, operatorDefinition>>

argumentVars == <<argumentCall, resolution>>
comparisonVars ==
    <<comparison, matchQuery, aggregationExpression, operatorName, parsedFunction>>
scalarTypeVars ==
    <<aggregateLookup, aggregateDefinition, operatorLookup, operatorDefinition>>

-----------------------------------------------------------------------------
(* Option, Result and map helpers *)

None == [some |-> FALSE]
Some(x) == [some |-> TRUE, v |-> x]
Ok(x) == [ok |-> TRUE, v |-> x]
Err(e) == [ok |-> FALSE, err |-> e]
ErrAt(e, path) == [ok |-> FALSE, err |-> e, path |-> path]

EmptyMap == [key \in {} |-> 0]
Range(s) == {s[i] : i \in DOMAIN s}

\* Iterator::try_collect over a Vec of Results: the first Err, else Ok of all values
RECURSIVE FirstErr(_, _)
FirstErr(results, i) ==
    IF i > Len(results) THEN 0
    ELSE IF ~results[i].ok THEN i
    ELSE FirstErr(results, i + 1)

try_collect(results) ==
    LET e == FirstErr(results, 1)
    IN  IF e = 0 THEN Ok([i \in DOMAIN results |-> results[i].v])
        ELSE results[e]

\* try_collect into a map: Ok of the map of values, or the error of the least failing key
try_collect_map(results) ==
    LET bad == {key \in DOMAIN results : ~results[key].ok}
    IN  IF bad = {} THEN Ok([key \in DOMAIN results |-> results[key].v])
        ELSE results[CHOOSE key \in bad : TRUE]

-----------------------------------------------------------------------------
(* BSON and JSON values *)

BNull == [b |-> "Null"]
BInt(n) == [b |-> "Int32", v |-> n]
BDouble(n) == [b |-> "Double", v |-> n]
BStr(s) == [b |-> "String", v |-> s]
BArr(a) == [b |-> "Array", a |-> a]
BDoc(d) == [b |-> "Document", d |-> d]

JNull == [j |-> "null"]
JNum(n) == [j |-> "number", v |-> n]
JStr(s) == [j |-> "string", v |-> s]
JArr(a) == [j |-> "array", a |-> a]
JObj(o) == [j |-> "object", o |-> o]

-----------------------------------------------------------------------------
(* mongo_query_plan::Type *)

TScalar(s) == [k |-> "Scalar", s |-> s]
TObject(fields) == [k |-> "Object", fields |-> fields]
TArrayOf(t) == [k |-> "ArrayOf", t |-> t]
TNullable(t) == [k |-> "Nullable", t |-> t]

\* query::serialization::is_nullable
is_nullable(t) == t.k = "Nullable"

\* Type::into_nullable: collapses Nullable(Nullable(T)) to Nullable(T)
into_nullable(t) == IF t.k = "Nullable" THEN t ELSE TNullable(t)

-----------------------------------------------------------------------------
(* query::serialization::bson_to_json, the type-directed BSON -> JSON codec *)

RECURSIVE into_canonical_extjson(_)
\* Scalar(ExtendedJSON): canonical extended JSON, numbers keep their BSON type tag
into_canonical_extjson(value) ==
    CASE value.b = "Null" -> JNull
      [] value.b = "Int32" -> JObj("$numberInt" :> JStr(ToString(value.v)))
      [] value.b = "Double" -> JObj("$numberDouble" :> JStr(ToString(value.v)))
      [] value.b = "String" -> JStr(value.v)
      [] value.b = "Array" ->
            JArr([i \in DOMAIN value.a |-> into_canonical_extjson(value.a[i])])
      [] value.b = "Document" ->
            JObj([key \in DOMAIN value.d |-> into_canonical_extjson(value.d[key])])

\* Scalar(Int/Double/String): natural JSON; any other BSON kind is a type mismatch
bson_scalar_to_json(scalar, value) ==
    CASE scalar = "Int" /\ value.b = "Int32" -> Ok(JNum(value.v))
      [] scalar = "Double" /\ value.b = "Double" -> Ok(JNum(value.v))
      [] scalar = "String" /\ value.b = "String" -> Ok(JStr(value.v))
      [] OTHER -> Err("BsonToJson")

RECURSIVE bson_to_json(_, _)
bson_to_json(expected_type, value) ==
    CASE expected_type.k = "Scalar" ->
            IF expected_type.s = "ExtendedJSON"
            THEN Ok(into_canonical_extjson(value))
            ELSE bson_scalar_to_json(expected_type.s, value)
      [] expected_type.k = "Object" ->
            \* a JSON object with exactly the keys declared in the type; a key the
            \* document lacks is an explicit null when its type is nullable
            IF value.b # "Document" THEN Err("BsonToJson")
            ELSE LET fields == expected_type.fields
                     converted ==
                        [key \in DOMAIN fields |->
                            IF key \in DOMAIN value.d
                            THEN bson_to_json(fields[key], value.d[key])
                            ELSE IF is_nullable(fields[key]) THEN Ok(JNull)
                            ELSE Err("BsonToJson")]
                     collected == try_collect_map(converted)
                 IN  IF collected.ok THEN Ok(JObj(collected.v)) ELSE collected
      [] expected_type.k = "ArrayOf" ->
            IF value.b # "Array" THEN Err("BsonToJson")
            ELSE LET converted ==
                        [i \in DOMAIN value.a |-> bson_to_json(expected_type.t, value.a[i])]
                     collected == try_collect(converted)
                 IN  IF collected.ok THEN Ok(JArr(collected.v)) ELSE collected
      [] expected_type.k = "Nullable" ->
            IF value.b = "Null" THEN Ok(JNull)
            ELSE bson_to_json(expected_type.t, value)

-----------------------------------------------------------------------------
(* mongo_query_plan: Field, NestedField, Query, QueryPlan *)

Column(column, column_type, fields) ==
    [f |-> "Column", column |-> column, column_type |-> column_type, fields |-> fields]
Relationship(aggregates, fields) ==
    [f |-> "Relationship", aggregates |-> aggregates, fields |-> fields]
NestedObject(fields) == [n |-> "Object", fields |-> fields]
NestedArray(fields) == [n |-> "Array", fields |-> fields]

\* QueryPlan::has_variables
has_variables(plan) == plan.variables.some

\* Query::has_aggregates: some aggregate is requested
has_aggregates(query) ==
    query.aggregates.some /\ DOMAIN query.aggregates.v # {}

-----------------------------------------------------------------------------
(* response.rs: the synthetic response types *)

append_to_path(path, elems) == path \o elems

path_to_owned(path) == path

\* mutant: every Nullable and ArrayOf layer is stripped
RECURSIVE element_type_all_layers(_)
element_type_all_layers(probably_array_type) ==
    CASE probably_array_type.k = "Nullable" -> element_type_all_layers(probably_array_type.t)
      [] probably_array_type.k = "ArrayOf" -> element_type_all_layers(probably_array_type.t)
      [] OTHER -> probably_array_type

\* Get type for elements within an array type; permissive if it is not an array
RECURSIVE element_type(_)
element_type(probably_array_type) ==
    CASE probably_array_type.k = "Nullable" -> element_type(probably_array_type.t)
      [] probably_array_type.k = "ArrayOf" -> probably_array_type.t
      [] OTHER -> probably_array_type

type_for_aggregates == TScalar("ExtendedJSON")

RECURSIVE type_for_row(_, _)
RECURSIVE type_for_field(_, _)
RECURSIVE type_for_nested_field(_, _, _)
RECURSIVE type_for_row_set(_, _, _)

\* mutant: the row type only has the plain columns, nested selections are left out
type_for_row_plain_columns_only(path, query_fields) ==
    LET plain == {field_name \in DOMAIN query_fields :
                    /\ query_fields[field_name].f = "Column"
                    /\ ~query_fields[field_name].fields.some}
    IN  TObject([field_name \in plain |->
                    type_for_field(append_to_path(path, <<field_name>>),
                                   query_fields[field_name])])

\* mutant: the row type is keyed by the column name instead of the field alias
type_for_row_keyed_by_column(path, query_fields) ==
    LET KeyOf(field_name) ==
            IF query_fields[field_name].f = "Column"
            THEN query_fields[field_name].column ELSE field_name
        keys == {KeyOf(field_name) : field_name \in DOMAIN query_fields}
    IN  TObject([key \in keys |->
                    LET field_name ==
                            CHOOSE name \in DOMAIN query_fields : KeyOf(name) = key
                    IN  type_for_field(append_to_path(path, <<field_name>>),
                                       query_fields[field_name])])

\* mutant: a nested array does not inherit the nullability of its parent
type_for_nested_field_array_never_nullable(path, parent, nested) ==
    CASE nested.n = "Object" ->
            LET t == type_for_row(path, nested.fields)
            IN  IF is_nullable(parent) THEN into_nullable(t) ELSE t
      [] nested.n = "Array" ->
            TArrayOf(type_for_nested_field(append_to_path(path, <<"[]">>),
                                           element_type(parent), nested.fields))

type_for_row(path, query_fields) ==
    TObject([field_name \in DOMAIN query_fields |->
                type_for_field(append_to_path(path, <<field_name>>),
                               query_fields[field_name])])

type_for_field(path, field_definition) ==
    CASE field_definition.f = "Column" /\ ~field_definition.fields.some ->
            field_definition.column_type
      [] field_definition.f = "Column" /\ field_definition.fields.some ->
            type_for_nested_field(path, field_definition.column_type,
                                  field_definition.fields.v)
      [] field_definition.f = "Relationship" ->
            type_for_row_set(path, field_definition.aggregates, field_definition.fields)

type_for_nested_field(path, parent, nested) ==
    CASE nested.n = "Object" ->
            LET t == type_for_row(path, nested.fields)
            IN  IF is_nullable(parent) THEN into_nullable(t) ELSE t
      [] nested.n = "Array" ->
            LET elem == type_for_nested_field(append_to_path(path, <<"[]">>),
                                              element_type(parent), nested.fields)
                t == TArrayOf(elem)
            IN  IF is_nullable(parent) THEN into_nullable(t) ELSE t

type_for_row_set(path, aggregates, fields) ==
    LET agg == IF aggregates.some THEN {"aggregates"} ELSE {}
        rws == IF fields.some THEN {"rows"} ELSE {}
    IN  TObject([key \in agg \cup rws |->
                    IF key = "aggregates" THEN type_for_aggregates
                    ELSE TArrayOf(type_for_row(path, fields.v))])

-----------------------------------------------------------------------------
(* response.rs: the shapes of data returned by MongoDB, read with serde *)

\* Vec<bson::Document>
de_documents(value) ==
    IF value.b = "Array" /\ \A i \in DOMAIN value.a : value.a[i].b = "Document"
    THEN Ok([i \in DOMAIN value.a |-> value.a[i].d])
    ELSE Err("BsonDeserialization")

\* struct BsonRowSet { #[serde(default)] aggregates: Bson, #[serde(default)] rows }
de_BsonRowSet(value) ==
    IF value.b # "Document" THEN Err("BsonDeserialization")
    ELSE LET aggregates == IF "aggregates" \in DOMAIN value.d
                           THEN value.d["aggregates"] ELSE BNull
             rows == IF "rows" \in DOMAIN value.d
                     THEN de_documents(value.d["rows"]) ELSE Ok(<<>>)
         IN  IF rows.ok THEN Ok([aggregates |-> aggregates, rows |-> rows.v])
             ELSE rows

\* struct ResponseForVariableSetsRowsOnly { row_sets: Vec<Vec<bson::Document>> }
de_ResponseForVariableSetsRowsOnly(value) ==
    IF value.b = "Document" /\ "row_sets" \in DOMAIN value.d
       /\ value.d["row_sets"].b = "Array"
    THEN LET sets == value.d["row_sets"].a
             row_sets == try_collect([i \in DOMAIN sets |-> de_documents(sets[i])])
         IN  IF row_sets.ok THEN Ok([row_sets |-> row_sets.v]) ELSE row_sets
    ELSE Err("BsonDeserialization")

\* struct ResponseForVariableSetsAggregates { row_sets: Vec<BsonRowSet> }
de_ResponseForVariableSetsAggregates(value) ==
    IF value.b = "Document" /\ "row_sets" \in DOMAIN value.d
       /\ value.d["row_sets"].b = "Array"
    THEN LET sets == value.d["row_sets"].a
             row_sets == try_collect([i \in DOMAIN sets |-> de_BsonRowSet(sets[i])])
         IN  IF row_sets.ok THEN Ok([row_sets |-> row_sets.v]) ELSE row_sets
    ELSE Err("BsonDeserialization")

\* bson::from_document::<T>
from_document(T, value) ==
    CASE T = "BsonRowSet" -> de_BsonRowSet(value)
      [] T = "ResponseForVariableSetsRowsOnly" -> de_ResponseForVariableSetsRowsOnly(value)
      [] T = "ResponseForVariableSetsAggregates" -> de_ResponseForVariableSetsAggregates(value)

\* mutant: an empty list of documents is read as one empty document
parse_single_document_empty_as_default(T, documents) ==
    IF Len(documents) = 0 THEN from_document(T, BDoc(EmptyMap))
    ELSE from_document(T, BDoc(documents[1]))

parse_single_document(T, documents) ==
    IF Len(documents) = 0 THEN Err("ExpectedSingleDocument")
    ELSE from_document(T, BDoc(documents[1]))

-----------------------------------------------------------------------------
(* response.rs: the serializer *)

serialize_rows(path, query_fields, docs) ==
    LET row_type == type_for_row(path, query_fields)
    IN  try_collect([i \in DOMAIN docs |->
            LET json == bson_to_json(row_type, BDoc(docs[i]))
            IN  IF ~json.ok THEN json
                ELSE IF json.v.j = "object" THEN Ok(json.v.o)
                ELSE Err("unreachable")])

\* mutant: only the aggregates the query asked for are kept
serialize_aggregates_requested_only(path, query_aggregates, value) ==
    LET json == bson_to_json(type_for_aggregates, value)
    IN  IF ~json.ok THEN json
        ELSE IF json.v.j = "object"
        THEN Ok([key \in DOMAIN json.v.o \cap DOMAIN query_aggregates |-> json.v.o[key]])
        ELSE ErrAt("AggregatesNotObject", path_to_owned(path))

serialize_aggregates(path, query_aggregates, value) ==
    LET json == bson_to_json(type_for_aggregates, value)
    IN  IF ~json.ok THEN json
        ELSE IF json.v.j = "object" THEN Ok(json.v.o)
        ELSE ErrAt("AggregatesNotObject", path_to_owned(path))

\* mutant: a rows-only row set carries an empty aggregates map instead of none
serialize_row_set_rows_only_empty_aggregates(path, query, docs) ==
    LET rows == IF query.fields.some
                THEN LET r == serialize_rows(path, query.fields.v, docs)
                     IN  IF r.ok THEN Ok(Some(r.v)) ELSE r
                ELSE Ok(None)
    IN  IF ~rows.ok THEN rows
        ELSE Ok([aggregates |-> Some(EmptyMap), rows |-> rows.v])

\* When there are no aggregates we expect a list of rows
serialize_row_set_rows_only(path, query, docs) ==
    LET rows == IF query.fields.some
                THEN LET r == serialize_rows(path, query.fields.v, docs)
                     IN  IF r.ok THEN Ok(Some(r.v)) ELSE r
                ELSE Ok(None)
    IN  IF ~rows.ok THEN rows
        ELSE Ok([aggregates |-> None, rows |-> rows.v])

\* mutant: rows is left out when the row set holds no rows
serialize_row_set_with_aggregates_no_empty_rows(path, query, row_set) ==
    LET aggregates ==
            IF query.aggregates.some
            THEN LET r == serialize_aggregates(path, query.aggregates.v, row_set.aggregates)
                 IN  IF r.ok THEN Ok(Some(r.v)) ELSE r
            ELSE Ok(None)
        rows == IF query.fields.some /\ Len(row_set.rows) > 0
                THEN LET r == serialize_rows(path, query.fields.v, row_set.rows)
                     IN  IF r.ok THEN Ok(Some(r.v)) ELSE r
                ELSE Ok(None)
    IN  IF ~aggregates.ok THEN aggregates
        ELSE IF ~rows.ok THEN rows
        ELSE Ok([aggregates |-> aggregates.v, rows |-> rows.v])

\* When there are aggregates we expect a single document with rows and aggregates
serialize_row_set_with_aggregates(path, query, row_set) ==
    LET aggregates ==
            IF query.aggregates.some
            THEN LET r == serialize_aggregates(path, query.aggregates.v, row_set.aggregates)
                 IN  IF r.ok THEN Ok(Some(r.v)) ELSE r
            ELSE Ok(None)
        rows == IF query.fields.some
                THEN LET r == serialize_rows(path, query.fields.v, row_set.rows)
                     IN  IF r.ok THEN Ok(Some(r.v)) ELSE r
                ELSE Ok(None)
    IN  IF ~aggregates.ok THEN aggregates
        ELSE IF ~rows.ok THEN rows
        ELSE Ok([aggregates |-> aggregates.v, rows |-> rows.v])

\* mutant: the variable-set shapes are not recognised, the documents are read as one
\* row set
serialize_query_response_ignoring_variables(plan, documents) ==
    IF has_aggregates(plan.query)
    THEN LET row_set == parse_single_document("BsonRowSet", documents)
         IN  IF ~row_set.ok THEN row_set
             ELSE LET r == serialize_row_set_with_aggregates(<<>>, plan.query, row_set.v)
                  IN  IF r.ok THEN Ok(<<r.v>>) ELSE r
    ELSE LET r == serialize_row_set_rows_only(<<>>, plan.query, documents)
         IN  IF r.ok THEN Ok(<<r.v>>) ELSE r

serialize_query_response(plan, documents) ==
    LET collection_name == plan.collection
    IN  IF has_variables(plan) /\ has_aggregates(plan.query)
        THEN LET responses ==
                    parse_single_document("ResponseForVariableSetsAggregates", documents)
             IN  IF ~responses.ok THEN responses
                 ELSE try_collect([i \in DOMAIN responses.v.row_sets |->
                        serialize_row_set_with_aggregates(
                            <<collection_name>>, plan.query, responses.v.row_sets[i])])
        ELSE IF plan.variables.some
        THEN LET responses ==
                    parse_single_document("ResponseForVariableSetsRowsOnly", documents)
             IN  IF ~responses.ok THEN responses
                 ELSE try_collect([i \in DOMAIN responses.v.row_sets |->
                        serialize_row_set_rows_only(
                            <<collection_name>>, plan.query, responses.v.row_sets[i])])
        ELSE IF has_aggregates(plan.query)
        THEN LET row_set == parse_single_document("BsonRowSet", documents)
             IN  IF ~row_set.ok THEN row_set
                 ELSE LET r == serialize_row_set_with_aggregates(<<>>, plan.query, row_set.v)
                      IN  IF r.ok THEN Ok(<<r.v>>) ELSE r
        ELSE LET r == serialize_row_set_rows_only(<<>>, plan.query, documents)
             IN  IF r.ok THEN Ok(<<r.v>>) ELSE r

-----------------------------------------------------------------------------
(* dc_api_types: Expression, ComparisonValue, ForeachVariant *)

And(expressions) == [e |-> "And", expressions |-> expressions]
ApplyBinaryComparison(column, operator, value) ==
    [e |-> "ApplyBinaryComparison", column |-> column, operator |-> operator,
     value |-> value]
ComparisonColumn(column_type, name) ==
    [column_type |-> column_type, name |-> name, path |-> None]
ScalarValueComparison(value, value_type) ==
    [c |-> "ScalarValueComparison", value |-> value, value_type |-> value_type]
Variable(name) == [c |-> "Variable", name |-> name]
ScalarValue(value, value_type) == [value |-> value, value_type |-> value_type]

Predicate(expression) == [variant |-> "Predicate", expression |-> expression]
VariableSet(variables) == [variant |-> "VariableSet", variables |-> variables]

\* Expression::and
and(e_old, predicate) == And(<<e_old, predicate>>)

-----------------------------------------------------------------------------
(* mongodb::{Pipeline, Stage, Selection} *)

Match(query) == [stage |-> "$match", query |-> query]
ReplaceWith(selection) == [stage |-> "$replaceWith", selection |-> selection]
Facet(queries) == [stage |-> "$facet", queries |-> queries]
Pipeline(stages) == [stages |-> stages]

-----------------------------------------------------------------------------
(* query/pipeline.rs: the pipeline of one query, without foreach *)

RECURSIVE make_selector(_, _)
\* the $match query of an expression; a variable is replaced by its value in the
\* variable set the query is compiled under
make_selector(variables, expression) ==
    CASE expression.e = "And" ->
            LET subs == try_collect([i \in DOMAIN expression.expressions |->
                            make_selector(variables, expression.expressions[i])])
            IN  IF subs.ok THEN Ok("$and" :> BArr([i \in DOMAIN subs.v |-> BDoc(subs.v[i])]))
                ELSE subs
      [] expression.e = "ApplyBinaryComparison" ->
            LET value == expression.value
                bson ==
                    CASE value.c = "ScalarValueComparison" -> Ok(BInt(value.value))
                      [] value.c = "Variable" ->
                            IF variables.some /\ value.name \in DOMAIN variables.v
                            THEN Ok(BInt(variables.v[value.name]))
                            ELSE Err("VariableNotDefined")
            IN  IF bson.ok
                THEN Ok(expression.column.name :> BDoc("$eq" :> bson.v))
                ELSE bson

\* $match for the predicate (if any), then a $replaceWith that projects the selected
\* fields, each wrapped in $ifNull: [$field, null]
pipeline_for_non_foreach(config, variables, query_request) ==
    LET query == query_request.query
        match == IF query.where.some
                 THEN LET selector == make_selector(variables, query.where.v)
                      IN  IF selector.ok THEN Ok(<<Match(selector.v)>>) ELSE selector
                 ELSE Ok(<<>>)
        selection ==
            [alias \in DOMAIN query.fields.v |->
                BDoc("$ifNull" :> BArr(<<BStr("$" \o query.fields.v[alias].column), BNull>>))]
    IN  IF match.ok THEN Ok(Pipeline(match.v \o <<ReplaceWith(selection)>>))
        ELSE match

-----------------------------------------------------------------------------
(* query/foreach.rs *)

FACET_FIELD == "__FACET__"

\* mutant: the facet name does not carry the index
facet_name_without_index(index) == FACET_FIELD \o "_"

facet_name(index) == FACET_FIELD \o "_" \o ToString(index)

\* Fold a 'foreach' HashMap into an Expression; order is the order in which the
\* HashMap happens to iterate over its keys
make_expression(column_values, order) ==
    And([i \in DOMAIN order |->
            ApplyBinaryComparison(
                ComparisonColumn(column_values[order[i]].value_type, order[i]),
                "Equal",
                ScalarValueComparison(column_values[order[i]].value,
                                      column_values[order[i]].value_type))])

\* mutant: the variables list is looked at before the foreach list
foreach_variants_variables_first(query_request, orders) ==
    IF query_request.variables.some
    THEN LET variables == query_request.variables.v
         IN  Some([i \in DOMAIN variables |-> VariableSet(variables[i])])
    ELSE IF query_request.foreach.some /\ query_request.foreach.v.some
    THEN LET each == query_request.foreach.v.v
         IN  Some([i \in DOMAIN each |-> Predicate(make_expression(each[i], orders[i]))])
    ELSE None

\* orders[i] is the HashMap iteration order of the i-th foreach element
foreach_variants(query_request, orders) ==
    IF query_request.foreach.some /\ query_request.foreach.v.some
    THEN LET each == query_request.foreach.v.v
         IN  Some([i \in DOMAIN each |-> Predicate(make_expression(each[i], orders[i]))])
    ELSE IF query_request.variables.some
    THEN LET variables == query_request.variables.v
         IN  Some([i \in DOMAIN variables |-> VariableSet(variables[i])])
    ELSE None

\* the sub-pipeline of one foreach variant, paired with its facet name
facet_pipeline(index, foreach_variant, config, query_request) ==
    LET predicate == IF foreach_variant.variant = "Predicate"
                     THEN Some(foreach_variant.expression) ELSE None
        variables == IF foreach_variant.variant = "VariableSet"
                     THEN Some(foreach_variant.variables) ELSE None
        q == IF predicate.some
             THEN [query_request EXCEPT !.query.where =
                        Some(IF @.some THEN and(@.v, predicate.v) ELSE predicate.v)]
             ELSE query_request
        pipeline == pipeline_for_non_foreach(config, variables, q)
    IN  IF pipeline.ok THEN Ok(<<facet_name(index), pipeline.v>>) ELSE pipeline

\* Iterator::collect of (key, value) pairs into a map: the last entry of a key wins
collect(pairs) ==
    [name \in {pairs[i][1] : i \in DOMAIN pairs} |->
        LET last == CHOOSE i \in DOMAIN pairs :
                        /\ pairs[i][1] = name
                        /\ \A j \in DOMAIN pairs : pairs[j][1] = name => j <= i
        IN  pairs[last][2]]

\* mutant: the predicate of each element is added to the request itself, so that every
\* later branch also carries the constraints of the elements before it
RECURSIVE accumulated_where(_, _, _)
accumulated_where(foreach, query_request, upto) ==
    IF upto = 0 THEN query_request
    ELSE LET before == accumulated_where(foreach, query_request, upto - 1)
         IN  IF foreach[upto].variant = "Predicate"
             THEN [before EXCEPT !.query.where =
                    Some(IF @.some THEN and(@.v, foreach[upto].expression)
                         ELSE foreach[upto].expression)]
             ELSE before

pipeline_for_foreach_request_not_cloned(foreach, config, query_request) ==
    LET pipelines == try_collect([i \in DOMAIN foreach |->
            facet_pipeline(i - 1, foreach[i], config,
                           accumulated_where(foreach, query_request, i - 1))])
    IN  IF ~pipelines.ok THEN pipelines
        ELSE LET selection ==
                    [row_sets |-> BArr([i \in DOMAIN pipelines.v |->
                                        BStr("$" \o pipelines.v[i][1])])]
                 queries == collect(pipelines.v)
             IN  Ok(Pipeline(<<Facet(queries), ReplaceWith(selection)>>))

\* mutant: row_sets lists the facets in reverse order
pipeline_for_foreach_reversed_row_sets(foreach, config, query_request) ==
    LET pipelines == try_collect([i \in DOMAIN foreach |->
            facet_pipeline(i - 1, foreach[i], config, query_request)])
    IN  IF ~pipelines.ok THEN pipelines
        ELSE LET n == Len(pipelines.v)
                 selection ==
                    [row_sets |-> BArr([i \in DOMAIN pipelines.v |->
                                        BStr("$" \o pipelines.v[n + 1 - i][1])])]
                 queries == collect(pipelines.v)
             IN  Ok(Pipeline(<<Facet(queries), ReplaceWith(selection)>>))

\* Produces a complete MongoDB pipeline for a foreach query
pipeline_for_foreach(foreach, config, query_request) ==
    LET pipelines == try_collect([i \in DOMAIN foreach |->
            facet_pipeline(i - 1, foreach[i], config, query_request)])
    IN  IF ~pipelines.ok THEN pipelines
        ELSE LET selection ==
                    [row_sets |-> BArr([i \in DOMAIN pipelines.v |->
                                        BStr("$" \o pipelines.v[i][1])])]
                 queries == collect(pipelines.v)
             IN  Ok(Pipeline(<<Facet(queries), ReplaceWith(selection)>>))

-----------------------------------------------------------------------------
(* The database: MongoDB's evaluation of the stages the compiler emits *)

Missing == [b |-> "Missing"]

\* a match query: { column: { $eq: value } } and { $and: [query, ...] }
RECURSIVE matches(_, _)
matches(query, document) ==
    \A key \in DOMAIN query :
        IF key = "$and"
        THEN \A i \in DOMAIN query[key].a : matches(query[key].a[i].d, document)
        ELSE key \in DOMAIN document /\ document[key] = query[key].d["$eq"]

\* "$name" reads field name of the document
field_path(reference, document) ==
    IF \E key \in DOMAIN document : "$" \o key = reference
    THEN document[CHOOSE key \in DOMAIN document : "$" \o key = reference]
    ELSE Missing

RECURSIVE eval_expression(_, _)
eval_expression(expression, document) ==
    CASE expression.b = "String" -> field_path(expression.v, document)
      [] expression.b = "Array" ->
            BArr([i \in DOMAIN expression.a |->
                    LET value == eval_expression(expression.a[i], document)
                    IN  IF value = Missing THEN BNull ELSE value])
      [] expression.b = "Document" ->
            LET operands == expression.d["$ifNull"].a
                value == eval_expression(operands[1], document)
            IN  IF value = Missing \/ value = BNull
                THEN eval_expression(operands[2], document)
                ELSE value
      [] OTHER -> expression

replace_with(selection, document) ==
    LET values == [key \in DOMAIN selection |-> eval_expression(selection[key], document)]
    IN  [key \in {k \in DOMAIN selection : values[k] # Missing} |-> values[key]]

RECURSIVE aggregate(_, _)
\* Result<Vec<Document>>: the documents of the collection run through the stages
aggregate(stages, documents) ==
    IF stages = <<>> THEN Ok(documents)
    ELSE LET stage == Head(stages)
             Pass(document) == matches(stage.query, document)
             output ==
                CASE stage.stage = "$match" -> Ok(SelectSeq(documents, Pass))
                  [] stage.stage = "$replaceWith" ->
                        Ok([i \in DOMAIN documents |->
                                replace_with(stage.selection, documents[i])])
                  [] stage.stage = "$facet" ->
                        \* the $facet specification must be a non-empty object
                        IF DOMAIN stage.queries = {} THEN Err("MongoDB")
                        ELSE LET branches == try_collect_map(
                                    [name \in DOMAIN stage.queries |->
                                        aggregate(stage.queries[name].stages, documents)])
                             IN  IF ~branches.ok THEN branches
                                 ELSE Ok(<<[name \in DOMAIN branches.v |->
                                            BArr([i \in DOMAIN branches.v[name] |->
                                                    BDoc(branches.v[name][i])])]>>)
         IN  IF output.ok THEN aggregate(Tail(stages), output.v) ELSE output

-----------------------------------------------------------------------------
(* configuration.rs: Configuration::validate *)

\* String's ordering over the names used as map keys: a BTreeMap iterates in this order
KeyOrdering ==
    <<"Album", "Artist", "albums", "count", "goodbye", "hello", "id", "q1", "q2", "title">>

\* BTreeMap::iter / into_iter: the entries (key, value) in key order
iter(map) ==
    LET Present(key) == key \in DOMAIN map
        keys == SelectSeq(KeyOrdering, Present)
    IN  [i \in DOMAIN keys |-> <<keys[i], map[keys[i]]>>]

\* BTreeMap::values
values(map) == LET entries == iter(map) IN [i \in DOMAIN entries |-> entries[i][2]]

RECURSIVE flatten(_)
flatten(lists) == IF lists = <<>> THEN <<>> ELSE Head(lists) \o flatten(Tail(lists))

\* Iterator::flat_map over the values of a map of native mutations or native queries:
\* the entries of their object_types, one after the other
flat_map_object_types(natives) ==
    flatten([i \in DOMAIN natives |-> iter(natives[i].object_types)])

\* Itertools::duplicates: each element that occurs more than once, once, at its second
\* occurrence
RECURSIVE duplicates_from(_, _)
duplicates_from(items, i) ==
    IF i > Len(items) THEN <<>>
    ELSE (IF Cardinality({j \in 1..(i - 1) : items[j] = items[i]}) = 1
          THEN <<items[i]>> ELSE <<>>)
         \o duplicates_from(items, i + 1)

duplicates(items) == duplicates_from(items, 1)

\* mutant: the object types local to native queries are left out
merge_object_types_without_native_queries(schema, native_mutations, native_queries) ==
    iter(schema.object_types)
    \o flat_map_object_types(values(native_mutations))

merge_object_types(schema, native_mutations, native_queries) ==
    LET object_types_from_schema == iter(schema.object_types)
        object_types_from_native_mutations == flat_map_object_types(values(native_mutations))
        object_types_from_native_queries == flat_map_object_types(values(native_queries))
    IN  object_types_from_schema
        \o object_types_from_native_mutations
        \o object_types_from_native_queries

\* anyhow!(...): the format string and its arguments
anyhow(text, arguments) == [text |-> text, arguments |-> arguments]

find_object_type(object_types, object_type_name) ==
    IF object_type_name \in DOMAIN object_types
    THEN Ok(object_types[object_type_name])
    ELSE Err(anyhow("configuration references an object type named {}, but it is not defined",
                    <<object_type_name>>))

function_result_type(object_types, function_name, object_type_name) ==
    LET object_type == find_object_type(object_types, object_type_name)
    IN  IF ~object_type.ok THEN object_type
        ELSE IF "__value" \in DOMAIN object_type.v.fields
        THEN Ok(object_type.v.fields["__value"])
        ELSE Err(anyhow("the type of the native query, {}, is not valid: the type of a native query that is represented as a function must be an object type with a single field named __value",
                        <<function_name>>))

get_primary_key_uniqueness_constraint(object_types, name, collection_type) ==
    IF /\ collection_type \in DOMAIN object_types
       /\ "_id" \in DOMAIN object_types[collection_type].fields
       /\ object_types[collection_type].fields["_id"] = "objectId"
    THEN (name \o "_id") :> [unique_columns |-> <<"_id">>]
    ELSE EmptyMap

collection_to_collection_info(object_types, name, collection) ==
    [name |-> name,
     collection_type |-> collection.type,
     uniqueness_constraints |->
        get_primary_key_uniqueness_constraint(object_types, name, collection.type)]

native_query_to_collection_info(object_types, name, native_query) ==
    [name |-> name,
     collection_type |-> native_query.result_document_type,
     uniqueness_constraints |->
        get_primary_key_uniqueness_constraint(object_types, name,
                                              native_query.result_document_type)]

native_query_to_function_info(object_types, name, native_query) ==
    LET result_type == function_result_type(object_types, name,
                                            native_query.result_document_type)
    IN  IF result_type.ok THEN Ok([name |-> name, result_type |-> result_type.v])
        ELSE result_type

native_mutation_to_mutation_info(mutation_name, mutation) ==
    [name |-> mutation_name, result_type |-> mutation.result_type]

\* From<serialized::NativeQuery> for NativeQuery: the local object types are dropped
into_native_query(nq) ==
    [representation |-> nq.representation,
     result_document_type |-> nq.result_document_type]

\* From<serialized::NativeMutation> for NativeMutation
into_native_mutation(np) == [result_type |-> np.result_type]

\* faulty variant: every native query is published as a collection, functions included
native_query_collections_of_every_representation(object_types, internal_native_queries) ==
    LET entries == iter(internal_native_queries)
    IN  [i \in DOMAIN entries |->
            <<entries[i][1],
              native_query_to_collection_info(object_types, entries[i][1], entries[i][2])>>]

\* the collections of the native queries with Collection representation
native_query_collections(object_types, internal_native_queries) ==
    LET IsCollection(entry) == entry[2].representation = "Collection"
        entries == SelectSeq(iter(internal_native_queries), IsCollection)
    IN  [i \in DOMAIN entries |->
            <<entries[i][1],
              native_query_to_collection_info(object_types, entries[i][1], entries[i][2])>>]

\* faulty variant: the errors after the first defect found are not reported
chain_until_first_error(first, second) == IF first # <<>> THEN first ELSE second

\* Iterator::chain
chain(first, second) == first \o second

validate(schema, native_mutations, native_queries, options) ==
    LET object_types_iter == merge_object_types(schema, native_mutations, native_queries)
        duplicate_type_names ==
            duplicates([i \in DOMAIN object_types_iter |-> object_types_iter[i][1]])
        object_type_errors ==
            IF duplicate_type_names = <<>> THEN <<>>
            ELSE <<anyhow("configuration contains multiple definitions for these object type names: {}",
                          duplicate_type_names)>>
        object_types == collect(object_types_iter)
        internal_native_queries ==
            [name \in DOMAIN native_queries |-> into_native_query(native_queries[name])]
        internal_native_mutations ==
            [name \in DOMAIN native_mutations |-> into_native_mutation(native_mutations[name])]
        regular_collections ==
            LET entries == iter(schema.collections)
            IN  [i \in DOMAIN entries |->
                    <<entries[i][1],
                      collection_to_collection_info(object_types, entries[i][1], entries[i][2])>>]
        IsFunction(entry) == entry[2].representation = "Function"
        collections ==
            collect(chain(regular_collections,
                          native_query_collections(object_types, internal_native_queries)))
        function_results ==
            LET entries == SelectSeq(iter(internal_native_queries), IsFunction)
            IN  [i \in DOMAIN entries |->
                    LET function_result == native_query_to_function_info(
                                                object_types, entries[i][1], entries[i][2])
                        collection_info == native_query_to_collection_info(
                                                object_types, entries[i][1], entries[i][2])
                    IN  IF function_result.ok
                        THEN Ok(<<entries[i][1], <<function_result.v, collection_info>>>>)
                        ELSE function_result]
        IsOk(result) == result.ok
        IsErr(result) == ~result.ok
        oks == SelectSeq(function_results, IsOk)
        errs == SelectSeq(function_results, IsErr)
        functions == collect([i \in DOMAIN oks |-> oks[i].v])
        function_errors == [i \in DOMAIN errs |-> errs[i].err]
        mutations ==
            [name \in DOMAIN internal_native_mutations |->
                native_mutation_to_mutation_info(name, internal_native_mutations[name])]
        errors == chain(object_type_errors, function_errors)
    IN  IF errors # <<>>
        THEN Err(anyhow("connector configuration has errrors: {}", errors))
        ELSE Ok([collections |-> collections,
                 functions |-> functions,
                 mutations |-> mutations,
                 native_mutations |-> internal_native_mutations,
                 native_queries |-> internal_native_queries,
                 object_types |-> object_types,
                 options |-> options])

-----------------------------------------------------------------------------
(* query/serialization: json_to_bson, the type-directed JSON -> BSON codec, and *)
(* query/query_variable_name                                                   *)

\* Scalar(Int/Double/String): the JSON value of that kind; any other is a JsonToBsonError
json_to_bson_scalar(scalar, value) ==
    CASE scalar = "Int" /\ value.j = "number" -> Ok(BInt(value.v))
      [] scalar = "Double" /\ value.j = "number" -> Ok(BDouble(value.v))
      [] scalar = "String" /\ value.j = "string" -> Ok(BStr(value.v))
      [] OTHER -> Err("JsonToBson")

RECURSIVE json_to_bson(_, _)
json_to_bson(expected_type, value) ==
    CASE expected_type.k = "Scalar" -> json_to_bson_scalar(expected_type.s, value)
      [] expected_type.k = "Nullable" ->
            IF value.j = "null" THEN Ok(BNull)
            ELSE json_to_bson(expected_type.t, value)
      [] expected_type.k = "ArrayOf" ->
            IF value.j # "array" THEN Err("JsonToBson")
            ELSE LET converted ==
                        try_collect([i \in DOMAIN value.a |->
                                        json_to_bson(expected_type.t, value.a[i])])
                 IN  IF converted.ok THEN Ok(BArr(converted.v)) ELSE converted
      [] expected_type.k = "Object" ->
            IF value.j # "object" THEN Err("JsonToBson")
            ELSE LET fields == expected_type.fields
                     converted ==
                        [key \in DOMAIN fields |->
                            IF key \in DOMAIN value.o
                            THEN json_to_bson(fields[key], value.o[key])
                            ELSE IF is_nullable(fields[key]) THEN Ok(BNull)
                            ELSE Err("JsonToBson")]
                     collected == try_collect_map(converted)
                 IN  IF collected.ok THEN Ok(BDoc(collected.v)) ELSE collected

\* the fingerprint of a type's structure, nullability included
RECURSIVE type_fingerprint(_)
type_fingerprint(variable_type) ==
    CASE variable_type.k = "Scalar" -> variable_type.s
      [] variable_type.k = "Nullable" -> "nullable_" \o type_fingerprint(variable_type.t)
      [] variable_type.k = "ArrayOf" -> "array_" \o type_fingerprint(variable_type.t)
      [] OTHER -> "object"

\* the name of the pipeline variable for a request variable referenced at a type
query_variable_name(name, variable_type) ==
    "v_" \o name \o "_" \o type_fingerprint(variable_type)

-----------------------------------------------------------------------------
(* query/arguments.rs *)

\* ndc_models::Argument
ArgumentVariable(name) == [type |-> "variable", name |-> name]
ArgumentLiteral(value) == [type |-> "literal", value |-> value]

\* ArgumentError::{Excess, Invalid, Missing}
ArgumentErrorExcess(names) == [error |-> "Excess", names |-> names]
ArgumentErrorInvalid(errors) == [error |-> "Invalid", errors |-> errors]
ArgumentErrorMissing(names) == [error |-> "Missing", names |-> names]

\* mutant: a variable is referred to by its name alone, whatever the parameter's type
argument_to_mongodb_expression_untyped(argument, parameter_type) ==
    IF argument.type = "variable"
    THEN Ok(BStr("$$" \o argument.name))
    ELSE json_to_bson(parameter_type, argument.value)

argument_to_mongodb_expression(argument, parameter_type) ==
    IF argument.type = "variable"
    THEN Ok(BStr("$$" \o query_variable_name(argument.name, parameter_type)))
    ELSE json_to_bson(parameter_type, argument.value)

\* the names of the entries of a map that are keys of the other map (present = TRUE)
\* or are not (present = FALSE), in the map's iteration order
names_by_presence(map, other, present) ==
    LET entries == iter(map)
        Selected(entry) == (entry[1] \in DOMAIN other) = present
        selected == SelectSeq(entries, Selected)
    IN  [i \in DOMAIN selected |-> selected[i][1]]

\* mutant: only the first argument without a parameter is reported
validate_no_excess_arguments_first_only(parameters, arguments) ==
    LET excess == names_by_presence(arguments, parameters, FALSE)
    IN  IF excess # <<>> THEN Err(ArgumentErrorExcess(<<Head(excess)>>)) ELSE Ok(<<>>)

validate_no_excess_arguments(parameters, arguments) ==
    LET excess == names_by_presence(arguments, parameters, FALSE)
    IN  IF excess # <<>> THEN Err(ArgumentErrorExcess(excess)) ELSE Ok(<<>>)

\* Itertools::partition_result of (name, Result) pairs: the pairs of one side, unwrapped
partition_side(pairs, ok) ==
    LET OnSide(pair) == pair[2].ok = ok
        side == SelectSeq(pairs, OnSide)
    IN  [i \in DOMAIN side |-> <<side[i][1], IF ok THEN side[i][2].v ELSE side[i][2].err>>]

\* mutant: the missing parameters are looked for before the excess arguments
resolve_arguments_missing_first(parameters, arguments) ==
    LET no_excess == validate_no_excess_arguments(parameters, arguments)
        missing == names_by_presence(parameters, arguments, FALSE)
        found == names_by_presence(parameters, arguments, TRUE)
        converted ==
            [i \in DOMAIN found |->
                <<found[i], argument_to_mongodb_expression(arguments[found[i]],
                                                           parameters[found[i]])>>]
        resolved == collect(partition_side(converted, TRUE))
        errors == collect(partition_side(converted, FALSE))
    IN  IF missing # <<>> THEN Err(ArgumentErrorMissing(missing))
        ELSE IF ~no_excess.ok THEN no_excess
        ELSE IF DOMAIN errors # {} THEN Err(ArgumentErrorInvalid(errors))
        ELSE Ok(resolved)

resolve_arguments(parameters, arguments) ==
    LET no_excess == validate_no_excess_arguments(parameters, arguments)
        missing == names_by_presence(parameters, arguments, FALSE)
        found == names_by_presence(parameters, arguments, TRUE)
        converted ==
            [i \in DOMAIN found |->
                <<found[i], argument_to_mongodb_expression(arguments[found[i]],
                                                           parameters[found[i]])>>]
        resolved == collect(partition_side(converted, TRUE))
        errors == collect(partition_side(converted, FALSE))
    IN  IF ~no_excess.ok THEN no_excess
        ELSE IF missing # <<>> THEN Err(ArgumentErrorMissing(missing))
        ELSE IF DOMAIN errors # {} THEN Err(ArgumentErrorInvalid(errors))
        ELSE Ok(resolved)

-----------------------------------------------------------------------------
(* comparison_function.rs *)

\* enum ComparisonFunction, in declaration order
ComparisonFunction ==
    <<"LessThan", "LessThanOrEqual", "GreaterThan", "GreaterThanOrEqual", "Equal",
      "NotEqual", "Regex", "IRegex">>

\* mutant: IRegex shares the name of Regex, as it does in mongodb_name
comparison_graphql_name_shared_regex(self) ==
    CASE self = "LessThan" -> "_lt"
      [] self = "LessThanOrEqual" -> "_lte"
      [] self = "GreaterThan" -> "_gt"
      [] self = "GreaterThanOrEqual" -> "_gte"
      [] self = "Equal" -> "_eq"
      [] self = "NotEqual" -> "_neq"
      [] self = "Regex" -> "_regex"
      [] self = "IRegex" -> "_regex"

comparison_graphql_name(self) ==
    CASE self = "LessThan" -> "_lt"
      [] self = "LessThanOrEqual" -> "_lte"
      [] self = "GreaterThan" -> "_gt"
      [] self = "GreaterThanOrEqual" -> "_gte"
      [] self = "Equal" -> "_eq"
      [] self = "NotEqual" -> "_neq"
      [] self = "Regex" -> "_regex"
      [] self = "IRegex" -> "_iregex"

mongodb_name(self) ==
    CASE self = "LessThan" -> "$lt"
      [] self = "LessThanOrEqual" -> "$lte"
      [] self = "GreaterThan" -> "$gt"
      [] self = "GreaterThanOrEqual" -> "$gte"
      [] self = "Equal" -> "$eq"
      [] self = "NotEqual" -> "$ne"
      [] self = "Regex" -> "$regex"
      [] self = "IRegex" -> "$regex"

\* QueryPlanError::UnknownComparisonOperator
UnknownComparisonOperator(name) == [error |-> "UnknownComparisonOperator", name |-> name]

\* Iterator::find over all::<ComparisonFunction>(): the first variant of that name
from_graphql_name(name) ==
    LET Named(variant) == comparison_graphql_name(variant) = name
        found == SelectSeq(ComparisonFunction, Named)
    IN  IF found # <<>> THEN Ok(Head(found)) ELSE Err(UnknownComparisonOperator(name))

\* mutant: IRegex is written like every other function, without $options
mongodb_match_query_without_options(self, column_ref, comparison_value) ==
    column_ref :> BDoc(mongodb_name(self) :> comparison_value)

mongodb_match_query(self, column_ref, comparison_value) ==
    IF self = "IRegex"
    THEN column_ref :> BDoc((mongodb_name(self) :> comparison_value)
                            @@ ("$options" :> BStr("i")))
    ELSE column_ref :> BDoc(mongodb_name(self) :> comparison_value)

\* mutant: IRegex is written like Regex, without options
mongodb_aggregation_expression_regex_alike(self, column_ref, comparison_value) ==
    IF self \in {"Regex", "IRegex"}
    THEN "$regexMatch" :> BDoc(("input" :> column_ref) @@ ("regex" :> comparison_value))
    ELSE mongodb_name(self) :> BArr(<<column_ref, comparison_value>>)

mongodb_aggregation_expression(self, column_ref, comparison_value) ==
    CASE self = "Regex" ->
            "$regexMatch" :> BDoc(("input" :> column_ref) @@ ("regex" :> comparison_value))
      [] self = "IRegex" ->
            "$regexMatch" :> BDoc(("input" :> column_ref) @@ ("regex" :> comparison_value)
                                  @@ ("options" :> BStr("i")))
      [] OTHER -> mongodb_name(self) :> BArr(<<column_ref, comparison_value>>)

-----------------------------------------------------------------------------
(* mongodb_support::BsonScalarType and aggregation_function.rs *)

\* enum BsonScalarType, in declaration order
BsonScalarType ==
    <<"Double", "Decimal", "Int", "Long", "String", "Date", "Timestamp", "BinData",
      "ObjectId", "Bool", "Null", "Regex", "Javascript", "JavascriptWithScope", "MinKey",
      "MaxKey", "Undefined", "DbPointer", "Symbol">>

EXTENDED_JSON_TYPE_NAME == "ExtendedJSON"

\* BsonScalarType::graphql_name: the name the scalar type is published under
bson_graphql_name(bson_scalar_type) == bson_scalar_type

is_orderable(scalar_type) ==
    scalar_type \in {"Double", "Decimal", "Int", "Long", "String", "Date", "Timestamp",
                     "ObjectId"}

is_numeric(scalar_type) == scalar_type \in {"Double", "Decimal", "Int", "Long"}

is_comparable(scalar_type) ==
    is_orderable(scalar_type) \/ scalar_type \in {"Bool", "BinData", "ObjectId", "Null"}

\* AggregationFunction::graphql_name
aggregation_graphql_name(self) ==
    CASE self = "Avg" -> "avg"
      [] self = "Count" -> "count"
      [] self = "Min" -> "min"
      [] self = "Max" -> "max"
      [] self = "Sum" -> "sum"

-----------------------------------------------------------------------------
(* scalar_types_capabilities.rs *)

iter_if(condition, items) == IF condition THEN items ELSE <<>>

aggregate_functions(scalar_type) ==
    chain(chain(<<<<"Count", "Int">>>>,
                iter_if(is_orderable(scalar_type),
                        <<<<"Min", scalar_type>>, <<"Max", scalar_type>>>>)),
          iter_if(is_numeric(scalar_type),
                  <<<<"Avg", scalar_type>>, <<"Sum", scalar_type>>>>))

\* mutant: the regex operators are offered for every scalar type
comparison_operators_regex_everywhere(scalar_type) ==
    chain(chain(iter_if(is_comparable(scalar_type),
                        <<<<"Equal", scalar_type>>, <<"NotEqual", scalar_type>>>>),
                iter_if(is_orderable(scalar_type),
                        <<<<"LessThan", scalar_type>>, <<"LessThanOrEqual", scalar_type>>,
                          <<"GreaterThan", scalar_type>>,
                          <<"GreaterThanOrEqual", scalar_type>>>>)),
          <<<<"Regex", "String">>, <<"IRegex", "String">>>>)

comparison_operators(scalar_type) ==
    chain(chain(iter_if(is_comparable(scalar_type),
                        <<<<"Equal", scalar_type>>, <<"NotEqual", scalar_type>>>>),
                iter_if(is_orderable(scalar_type),
                        <<<<"LessThan", scalar_type>>, <<"LessThanOrEqual", scalar_type>>,
                          <<"GreaterThan", scalar_type>>,
                          <<"GreaterThanOrEqual", scalar_type>>>>)),
          IF scalar_type = "String"
          THEN <<<<"Regex", "String">>, <<"IRegex", "String">>>>
          ELSE <<>>)

bson_to_named_type(bson_scalar_type) ==
    [type |-> "named", name |-> bson_graphql_name(bson_scalar_type)]

bson_aggregation_functions(bson_scalar_type) ==
    LET functions == aggregate_functions(bson_scalar_type)
    IN  collect([i \in DOMAIN functions |->
                    <<aggregation_graphql_name(functions[i][1]),
                      [result_type |-> bson_to_named_type(functions[i][2])]>>])

bson_comparison_operators(bson_scalar_type) ==
    LET operators == comparison_operators(bson_scalar_type)
    IN  collect([i \in DOMAIN operators |->
                    <<comparison_graphql_name(operators[i][1]),
                      IF operators[i][1] = "Equal"
                      THEN [type |-> "equal"]
                      ELSE [type |-> "custom",
                            argument_type |-> bson_to_named_type(operators[i][2])]>>])

bson_scalar_type_representation(bson_scalar_type) ==
    CASE bson_scalar_type = "Double" -> Some("Float64")
      [] bson_scalar_type = "Decimal" -> Some("BigDecimal")
      [] bson_scalar_type = "Int" -> Some("Int32")
      [] bson_scalar_type = "Long" -> Some("Int64")
      [] bson_scalar_type = "String" -> Some("String")
      [] bson_scalar_type = "Date" -> Some("Timestamp")
      [] bson_scalar_type = "ObjectId" -> Some("String")
      [] bson_scalar_type = "Bool" -> Some("Boolean")
      [] OTHER -> None

make_scalar_type(bson_scalar_type) ==
    <<bson_graphql_name(bson_scalar_type),
      [representation |-> bson_scalar_type_representation(bson_scalar_type),
       aggregate_functions |-> bson_aggregation_functions(bson_scalar_type),
       comparison_operators |-> bson_comparison_operators(bson_scalar_type)]>>

extended_json_scalar_type ==
    <<EXTENDED_JSON_TYPE_NAME,
      [representation |-> Some("JSON"),
       aggregate_functions |-> EmptyMap,
       comparison_operators |-> EmptyMap]>>

scalar_types ==
    collect(chain([i \in DOMAIN BsonScalarType |-> make_scalar_type(BsonScalarType[i])],
                  <<extended_json_scalar_type>>))

-----------------------------------------------------------------------------
(* Bounds and input domains *)

MaxDocs == 2        \* response documents in a rows-only response
MaxRowSets == 2     \* row sets inside one variable-set response document
MaxTypeDepth == 3   \* Nullable / ArrayOf layers around a parent column type
MaxVariants == 2    \* elements of a request's foreach list or variables list

SeqsUpTo(S, n) == UNION {[1..len -> S] : len \in 0..n}

IntT == TScalar("Int")
StringT == TScalar("String")
DoubleT == TScalar("Double")
GeocodeType == TObject([latitude |-> DoubleT, longitude |-> DoubleT])
AddressType == TObject([street |-> StringT, geocode |-> TNullable(GeocodeType)])
ArticleType == TObject([title |-> StringT])

\* albumId, title (nullable)
PlainFields ==
    [albumId |-> Column("albumId", IntT, None),
     title |-> Column("title", TNullable(StringT), None)]

\* address1 = address { line1 = street },
\* address2 = address { latlong = geocode { long = longitude } }
AliasedFields ==
    [address1 |-> Column("address", AddressType,
                    Some(NestedObject([line1 |-> Column("street", StringT, None)]))),
     address2 |-> Column("address", AddressType,
                    Some(NestedObject(
                        [latlong |-> Column("geocode", TNullable(GeocodeType),
                            Some(NestedObject(
                                [long |-> Column("longitude", DoubleT, None)])))])))]

\* articles = articles [ { article_title = title } ], presenter = author { albumId, title }
NestedFields ==
    [articles |-> Column("articles", TNullable(TArrayOf(ArticleType)),
                    Some(NestedArray(NestedObject(
                        [article_title |-> Column("title", StringT, None)])))),
     presenter |-> Relationship(None, Some(PlainFields))]

\* albumId, presenter = author (nothing selected from the relationship)
UnselectedRelationshipFields ==
    [albumId |-> Column("albumId", IntT, None),
     presenter |-> Relationship(None, None)]

FieldSelections ==
    {None, Some(PlainFields), Some(AliasedFields), Some(NestedFields),
     Some(UnselectedRelationshipFields)}

AggregateSelections == {None, Some(EmptyMap), Some([count |-> [type |-> "StarCount"]])}

VariableSelections == {None, Some(<<[artistId |-> 1]>>)}

QueryPlans ==
    {[collection |-> "authors",
      query |-> [fields |-> fs, aggregates |-> ags],
      variables |-> vs] :
        fs \in FieldSelections, ags \in AggregateSelections, vs \in VariableSelections}

Row1 == [albumId |-> BInt(1), title |-> BStr("For Those About To Rock")]
Row2 == [albumId |-> BInt(2), title |-> BNull]
Row3 == [albumId |-> BInt(3)]
Row4 == [title |-> BStr("Restless and Wild")]
Row5 ==
    [address1 |-> BDoc([line1 |-> BStr("137 Maple Dr")]),
     address2 |-> BDoc([latlong |-> BDoc([long |-> BDouble(122)])])]
Row6 ==
    [address1 |-> BDoc([line1 |-> BStr("137 Maple Dr")]),
     address2 |-> BDoc(EmptyMap)]
Row7 ==
    [articles |-> BArr(<<BDoc([article_title |-> BStr("Modeling MongoDB")])>>),
     presenter |-> BDoc([rows |-> BArr(<<BDoc(Row1), BDoc(Row3)>>)])]

Row8 == [albumId |-> BInt(1), presenter |-> BDoc(EmptyMap)]

RowDocs == {Row1, Row2, Row3, Row4, Row5, Row6, Row7, Row8}

\* documents of the shape { aggregates, rows }
RowSetDocs ==
    {[aggregates |-> BDoc([count |-> BInt(2)]), rows |-> BArr(<<BDoc(Row1), BDoc(Row3)>>)],
     [aggregates |-> BDoc([count |-> BInt(0)])],
     [rows |-> BArr(<<BDoc(Row2)>>)],
     [aggregates |-> BInt(3), rows |-> BArr(<<>>)],
     [aggregates |-> BArr(<<BInt(3)>>), rows |-> BArr(<<BDoc(Row1)>>)],
     [aggregates |-> BDoc([count |-> BInt(1)]), rows |-> BNull],
     [aggregates |-> BDoc([average |-> BDouble(2), total |-> BInt(5)]),
      rows |-> BArr(<<BDoc(Row3)>>)]}

\* the row lists of a { row_sets: [[rows], ...] } document
RowLists == {<<>>, <<BDoc(Row1), BDoc(Row3)>>, <<BDoc(Row2)>>, <<BDoc(Row4)>>}

VariableSetDocs ==
    {[row_sets |-> BArr([i \in DOMAIN sets |-> BArr(sets[i])])] :
        sets \in SeqsUpTo(RowLists, MaxRowSets)}
    \cup {[row_sets |-> BArr([i \in DOMAIN sets |-> BDoc(sets[i])])] :
        sets \in SeqsUpTo(RowSetDocs, MaxRowSets)}
    \cup {[row_sets |-> BNull]}

ResponseDocuments ==
    SeqsUpTo(RowDocs, MaxDocs)
    \cup {<<d>> : d \in RowSetDocs \cup VariableSetDocs}

\* parent column types: up to MaxTypeDepth Nullable / ArrayOf layers around a base
RECURSIVE WrappedTypes(_)
WrappedTypes(depth) ==
    IF depth = 0 THEN {AddressType, StringT}
    ELSE LET inner == WrappedTypes(depth - 1)
         IN  inner \cup {TNullable(t) : t \in inner} \cup {TArrayOf(t) : t \in inner}

ParentTypes == WrappedTypes(MaxTypeDepth)

StreetSelection == NestedObject([line1 |-> Column("street", StringT, None)])
GeocodeSelection ==
    NestedObject([latlong |-> Column("geocode", TNullable(GeocodeType),
                    Some(NestedObject([long |-> Column("longitude", DoubleT, None)])))])

NestedSelections ==
    {StreetSelection, GeocodeSelection,
     NestedArray(StreetSelection), NestedArray(GeocodeSelection),
     NestedArray(NestedArray(StreetSelection))}

-----------------------------------------------------------------------------
(* Response serializer: one run of serialize_query_response *)

TypesIdle == parent_type = None /\ nested_field = None /\ nested_type = None
ResponseIdle == query_plan = None /\ response_documents = <<>> /\ response = None
ForeachIdle == queryRequest = None /\ foreachVariants = None /\ foreachPipeline = None
ConfigIdle == serialized = None /\ validated = None
ArgumentsIdle == argumentCall = None /\ resolution = None
ComparisonIdle ==
    /\ comparison = None
    /\ matchQuery = None
    /\ aggregationExpression = None
    /\ operatorName = None
    /\ parsedFunction = None
ScalarTypesIdle ==
    /\ aggregateLookup = None
    /\ aggregateDefinition = None
    /\ operatorLookup = None
    /\ operatorDefinition = None
CapabilitiesIdle == ArgumentsIdle /\ ComparisonIdle /\ ScalarTypesIdle

InitResponse ==
    /\ pc = "start"
    /\ query_plan \in QueryPlans
    /\ response_documents \in ResponseDocuments
    /\ response = None
    /\ TypesIdle
    /\ ForeachIdle
    /\ ConfigIdle
    /\ CapabilitiesIdle

SerializeQueryResponse ==
    /\ pc = "start"
    /\ response' = Some(serialize_query_response(query_plan, response_documents))
    /\ pc' = "done"
    /\ UNCHANGED <<argumentVars, comparisonVars, scalarTypeVars,
                   query_plan, response_documents, parent_type, nested_field, nested_type,
                   queryRequest, foreachVariants, foreachPipeline,
                   serialized, validated>>

NextResponse == SerializeQueryResponse

SpecResponse == InitResponse /\ [][NextResponse]_vars

-----------------------------------------------------------------------------
(* Type synthesis for nested selections: one run of type_for_nested_field *)

InitTypes ==
    /\ pc = "start"
    /\ parent_type \in {Some(t) : t \in ParentTypes}
    /\ nested_field \in {Some(n) : n \in NestedSelections}
    /\ nested_type = None
    /\ ResponseIdle
    /\ ForeachIdle
    /\ ConfigIdle
    /\ CapabilitiesIdle

TypeForNestedField ==
    /\ pc = "start"
    /\ nested_type' = Some(type_for_nested_field(<<"authors">>, parent_type.v, nested_field.v))
    /\ pc' = "done"
    /\ UNCHANGED <<argumentVars, comparisonVars, scalarTypeVars,
                   query_plan, response_documents, response, parent_type, nested_field,
                   queryRequest, foreachVariants, foreachPipeline,
                   serialized, validated>>

NextTypes == TypeForNestedField

SpecTypes == InitTypes /\ [][NextTypes]_vars

-----------------------------------------------------------------------------
(* Foreach: one run of a request through foreach_variants, pipeline_for_foreach, *)
(* the database and serialize_query_response                                     *)

\* the tracks collection
Tracks ==
    <<[artistId |-> BInt(1), albumId |-> BInt(1), title |-> BStr("For Those About To Rock")],
      [artistId |-> BInt(1), albumId |-> BInt(4), title |-> BStr("Let There Be Rock")],
      [artistId |-> BInt(3), albumId |-> BInt(2)]>>

TrackColumnTypes ==
    [artistId |-> IntT, albumId |-> IntT, title |-> TNullable(StringT)]

DefaultConfiguration == [collections |-> EmptyMap, object_types |-> EmptyMap]

RequestFields ==
    {[albumId |-> [column |-> "albumId", column_type |-> "int"],
      title |-> [column |-> "title", column_type |-> "string"]],
     [id |-> [column |-> "albumId", column_type |-> "int"]]}

RequestWheres ==
    {None,
     Some(ApplyBinaryComparison(ComparisonColumn("int", "artistId"), "Equal",
                                Variable("artistId"))),
     Some(ApplyBinaryComparison(ComparisonColumn("int", "albumId"), "Equal",
                                ScalarValueComparison(1, "int")))}

\* elements of a foreach list: maps of column -> ScalarValue
ForeachElements ==
    {[artistId |-> ScalarValue(1, "int")],
     [artistId |-> ScalarValue(2, "int")],
     [artistId |-> ScalarValue(1, "int"), albumId |-> ScalarValue(4, "int")]}

\* variable sets: maps of variable name -> value; one set does not bind artistId
VariableSets == {[artistId |-> 1], [artistId |-> 2], [artistId |-> 3], [limit |-> 1]}

\* a v2 request carries a foreach list; a request translated from v3 carries variables
QueryRequests ==
    {[foreach |-> fe, variables |-> vs, target |-> "tracks",
      query |-> [fields |-> Some(fs), where |-> wh, aggregates |-> None]] :
        fe \in {Some(Some(each)) : each \in SeqsUpTo(ForeachElements, MaxVariants)},
        vs \in {None},
        fs \in RequestFields, wh \in RequestWheres}
    \cup
    {[foreach |-> fe, variables |-> vs, target |-> "tracks",
      query |-> [fields |-> Some(fs), where |-> wh, aggregates |-> None]] :
        fe \in {None, Some(None)},
        vs \in {None} \cup {Some(sets) : sets \in SeqsUpTo(VariableSets, MaxVariants)},
        fs \in RequestFields, wh \in RequestWheres}

\* the plan of a request: its projection typed by the collection's columns
PlanFor(request) ==
    [collection |-> request.target,
     query |-> [fields |-> Some([alias \in DOMAIN request.query.fields.v |->
                    LET column == request.query.fields.v[alias].column
                    IN  Column(column, TrackColumnTypes[column], None)]),
                aggregates |-> request.query.aggregates],
     variables |-> request.variables]

\* the orders in which a HashMap may iterate over its keys
KeyOrders(S) ==
    {order \in [1..Cardinality(S) -> S] :
        \A i, j \in DOMAIN order : i # j => order[i] # order[j]}

IterationOrders(request) ==
    IF request.foreach.some /\ request.foreach.v.some
    THEN LET each == request.foreach.v.v
         IN  {orders \in [DOMAIN each -> UNION {KeyOrders(DOMAIN each[i]) : i \in DOMAIN each}] :
                \A i \in DOMAIN each : orders[i] \in KeyOrders(DOMAIN each[i])}
    ELSE {<<>>}

InitForeach ==
    /\ pc = "start"
    /\ queryRequest \in {Some(request) : request \in QueryRequests}
    /\ query_plan = PlanFor(queryRequest.v)
    /\ foreachVariants = None
    /\ foreachPipeline = None
    /\ response_documents = <<>>
    /\ response = None
    /\ TypesIdle
    /\ ConfigIdle
    /\ CapabilitiesIdle

ForeachVariants ==
    /\ pc = "start"
    /\ \E orders \in IterationOrders(queryRequest.v) :
            foreachVariants' = foreach_variants(queryRequest.v, orders)
    /\ pc' = "variants"
    /\ UNCHANGED <<argumentVars, comparisonVars, scalarTypeVars,
                   query_plan, response_documents, response, parent_type, nested_field,
                   nested_type, queryRequest, foreachPipeline,
                   serialized, validated>>

PipelineForForeach ==
    /\ pc = "variants"
    /\ foreachVariants.some
    /\ foreachPipeline' = Some(pipeline_for_foreach(foreachVariants.v, DefaultConfiguration, queryRequest.v))
    /\ pc' = "pipeline"
    /\ UNCHANGED <<argumentVars, comparisonVars, scalarTypeVars,
                   query_plan, response_documents, response, parent_type, nested_field,
                   nested_type, queryRequest, foreachVariants,
                   serialized, validated>>

\* the database runs the pipeline over the collection; a command error ends the run
Aggregate ==
    /\ pc = "pipeline"
    /\ foreachPipeline.v.ok
    /\ LET result == aggregate(foreachPipeline.v.v.stages, Tracks)
       IN  IF result.ok
           THEN /\ response_documents' = result.v
                /\ pc' = "executed"
                /\ UNCHANGED response
           ELSE /\ response' = Some(result)
                /\ pc' = "failed"
                /\ UNCHANGED response_documents
    /\ UNCHANGED <<argumentVars, comparisonVars, scalarTypeVars,
                   query_plan, parent_type, nested_field, nested_type,
                   queryRequest, foreachVariants, foreachPipeline,
                   serialized, validated>>

SerializeForeachResponse ==
    /\ pc = "executed"
    /\ has_variables(query_plan)
    /\ response' = Some(serialize_query_response(query_plan, response_documents))
    /\ pc' = "responded"
    /\ UNCHANGED <<argumentVars, comparisonVars, scalarTypeVars,
                   query_plan, response_documents, parent_type, nested_field, nested_type,
                   queryRequest, foreachVariants, foreachPipeline,
                   serialized, validated>>

NextForeach ==
    \/ ForeachVariants
    \/ PipelineForForeach
    \/ Aggregate
    \/ SerializeForeachResponse

SpecForeach == InitForeach /\ [][NextForeach]_vars

-----------------------------------------------------------------------------
(* Configuration: one run of Configuration::validate *)

ObjectTypeNames == {"Album", "Artist"}

\* the definitions differ by where they are made, so that the one kept is visible
SchemaObjectType == [fields |-> [_id |-> "objectId", title |-> "string"]]
NativeMutationObjectType == [fields |-> [title |-> "string"]]
NativeQueryObjectType == [fields |-> [__value |-> "int"]]

MapsOver(Keys, Values) == UNION {[S -> Values] : S \in SUBSET Keys}

Schemas ==
    {[collections |-> collections, object_types |-> [name \in names |-> SchemaObjectType]] :
        collections \in {EmptyMap,
                         [albums |-> [type |-> "Album"]],
                         [q1 |-> [type |-> "Artist"]]},
        names \in SUBSET ObjectTypeNames}

NativeMutations ==
    MapsOver({"hello", "goodbye"},
        {[object_types |-> [name \in names |-> NativeMutationObjectType],
          result_type |-> "Album"] :
            names \in {{}, {"Album"}, {"Album", "Artist"}}})

\* an object type that has a __value field and another field besides
ValueAndTotalObjectType == [fields |-> [__value |-> "int", total |-> "int"]]

NativeQueries ==
    MapsOver({"q1", "q2"},
        {[representation |-> representation,
          object_types |-> object_types,
          result_document_type |-> "Album"] :
            representation \in {"Collection", "Function"},
            object_types \in {EmptyMap,
                              [Album |-> NativeQueryObjectType],
                              [Album |-> ValueAndTotalObjectType],
                              [Artist |-> NativeQueryObjectType]}})

DefaultOptions == [serialization_options |-> [extended_json_mode |-> "Canonical"]]

InitConfig ==
    /\ pc = "start"
    /\ serialized \in {Some([schema |-> s, native_mutations |-> nm, native_queries |-> nq]) :
                        s \in Schemas, nm \in NativeMutations, nq \in NativeQueries}
    /\ validated = None
    /\ ResponseIdle
    /\ TypesIdle
    /\ ForeachIdle
    /\ CapabilitiesIdle

Validate ==
    /\ pc = "start"
    /\ validated' = Some(validate(serialized.v.schema, serialized.v.native_mutations,
                                  serialized.v.native_queries, DefaultOptions))
    /\ pc' = "validated"
    /\ UNCHANGED <<argumentVars, comparisonVars, scalarTypeVars,
                   query_plan, response_documents, response, parent_type, nested_field,
                   nested_type, queryRequest, foreachVariants, foreachPipeline, serialized>>

NextConfig == Validate

SpecConfig == InitConfig /\ [][NextConfig]_vars

-----------------------------------------------------------------------------
(* Arguments: one run of resolve_arguments *)

ArgumentNames == {"count", "id", "title"}
ParameterTypes == {TScalar("Int"), TScalar("String")}
\* the arguments a name can be bound to: two literals and two variables
Arguments ==
    <<ArgumentLiteral(JNum(1)), ArgumentLiteral(JStr("a")), ArgumentVariable("v"),
      ArgumentVariable("w")>>

ParameterMaps == UNION {[names -> ParameterTypes] : names \in SUBSET ArgumentNames}
\* for each bound name the index of its argument in Arguments
ArgumentChoices == UNION {[names -> DOMAIN Arguments] : names \in SUBSET ArgumentNames}

InitArguments ==
    /\ pc = "start"
    /\ \E p \in ParameterMaps, a \in ArgumentChoices :
            argumentCall = Some([parameters |-> p,
                                 arguments |-> [name \in DOMAIN a |-> Arguments[a[name]]]])
    /\ resolution = None
    /\ ResponseIdle
    /\ TypesIdle
    /\ ForeachIdle
    /\ ConfigIdle
    /\ ComparisonIdle
    /\ ScalarTypesIdle

ResolveArguments ==
    /\ pc = "start"
    /\ resolution' = Some(resolve_arguments(argumentCall.v.parameters,
                                            argumentCall.v.arguments))
    /\ pc' = "resolved"
    /\ UNCHANGED <<argumentCall, comparisonVars, scalarTypeVars,
                   query_plan, response_documents, response, parent_type, nested_field,
                   nested_type, queryRequest, foreachVariants, foreachPipeline,
                   serialized, validated>>

NextArguments == ResolveArguments

SpecArguments == InitArguments /\ [][NextArguments]_vars

-----------------------------------------------------------------------------
(* Comparison functions: the two MongoDB forms of one comparison *)

ComparisonColumns == {"title", "count", "id"}
\* the eight operator names and strings that are none of them
OperatorNameInputs ==
    {"_lt", "_lte", "_gt", "_gte", "_eq", "_neq", "_regex", "_iregex",
     "", "eq", "_EQ", "_like", "$regex"}
ComparisonValues == <<BNull, BInt(1), BInt(2), BStr("a"), BStr("^a")>>

InitComparison ==
    /\ pc = "start"
    /\ \E f \in Range(ComparisonFunction), c \in ComparisonColumns,
          i \in DOMAIN ComparisonValues :
            comparison = Some([function |-> f, column |-> c,
                               value |-> ComparisonValues[i]])
    /\ matchQuery = None
    /\ aggregationExpression = None
    /\ operatorName \in {Some(name) : name \in OperatorNameInputs}
    /\ parsedFunction = None
    /\ ResponseIdle
    /\ TypesIdle
    /\ ForeachIdle
    /\ ConfigIdle
    /\ ArgumentsIdle
    /\ ScalarTypesIdle

MongodbMatchQuery ==
    /\ matchQuery = None
    /\ matchQuery' = Some(mongodb_match_query(comparison.v.function, comparison.v.column,
                                              comparison.v.value))
    /\ pc' = "compared"
    /\ UNCHANGED <<argumentVars, comparison, aggregationExpression, scalarTypeVars,
                   operatorName, parsedFunction,
                   query_plan, response_documents, response, parent_type, nested_field,
                   nested_type, queryRequest, foreachVariants, foreachPipeline,
                   serialized, validated>>

\* in an aggregation expression the column is referred to as "$column"
MongodbAggregationExpression ==
    /\ aggregationExpression = None
    /\ aggregationExpression' =
            Some(mongodb_aggregation_expression(comparison.v.function,
                                                BStr("$" \o comparison.v.column),
                                                comparison.v.value))
    /\ pc' = "compared"
    /\ UNCHANGED <<argumentVars, comparison, matchQuery, scalarTypeVars,
                   operatorName, parsedFunction,
                   query_plan, response_documents, response, parent_type, nested_field,
                   nested_type, queryRequest, foreachVariants, foreachPipeline,
                   serialized, validated>>

FromGraphqlName ==
    /\ parsedFunction = None
    /\ parsedFunction' = Some(from_graphql_name(operatorName.v))
    /\ pc' = "compared"
    /\ UNCHANGED <<argumentVars, comparison, matchQuery, aggregationExpression,
                   operatorName, scalarTypeVars,
                   query_plan, response_documents, response, parent_type, nested_field,
                   nested_type, queryRequest, foreachVariants, foreachPipeline,
                   serialized, validated>>

NextComparison == MongodbMatchQuery \/ MongodbAggregationExpression \/ FromGraphqlName

SpecComparison == InitComparison /\ [][NextComparison]_vars

-----------------------------------------------------------------------------
(* Scalar types: the lookup of an aggregate function in the published scalar types *)

AggregateFunctionNames == {"avg", "count", "max", "min", "sum"}
ComparisonOperatorNames ==
    {"_eq", "_neq", "_lt", "_lte", "_gt", "_gte", "_regex", "_iregex"}

InitScalarTypes ==
    /\ pc = "start"
    /\ aggregateLookup \in {Some([scalar_type |-> t, function |-> f]) :
                               t \in DOMAIN scalar_types, f \in AggregateFunctionNames}
    /\ aggregateDefinition = None
    /\ operatorLookup \in {Some([scalar_type |-> t, operator |-> o]) :
                              t \in DOMAIN scalar_types, o \in ComparisonOperatorNames}
    /\ operatorDefinition = None
    /\ ResponseIdle
    /\ TypesIdle
    /\ ForeachIdle
    /\ ConfigIdle
    /\ ArgumentsIdle
    /\ ComparisonIdle

\* SCALAR_TYPES.get(scalar_type).aggregate_functions.get(function)
LookupAggregateFunction ==
    /\ pc = "start"
    /\ LET published == scalar_types[aggregateLookup.v.scalar_type].aggregate_functions
       IN  aggregateDefinition' =
                Some(IF aggregateLookup.v.function \in DOMAIN published
                     THEN Some(published[aggregateLookup.v.function])
                     ELSE None)
    /\ pc' = "looked up"
    /\ UNCHANGED <<argumentVars, comparisonVars, aggregateLookup,
                   operatorLookup, operatorDefinition,
                   query_plan, response_documents, response, parent_type, nested_field,
                   nested_type, queryRequest, foreachVariants, foreachPipeline,
                   serialized, validated>>

\* SCALAR_TYPES.get(scalar_type).comparison_operators.get(operator)
LookupComparisonOperator ==
    /\ pc = "looked up"
    /\ LET published == scalar_types[operatorLookup.v.scalar_type].comparison_operators
       IN  operatorDefinition' =
                Some(IF operatorLookup.v.operator \in DOMAIN published
                     THEN Some(published[operatorLookup.v.operator])
                     ELSE None)
    /\ pc' = "operator looked up"
    /\ UNCHANGED <<argumentVars, comparisonVars, aggregateLookup, aggregateDefinition,
                   operatorLookup,
                   query_plan, response_documents, response, parent_type, nested_field,
                   nested_type, queryRequest, foreachVariants, foreachPipeline,
                   serialized, validated>>

NextScalarTypes == LookupAggregateFunction \/ LookupComparisonOperator

SpecScalarTypes == InitScalarTypes /\ [][NextScalarTypes]_vars

-----------------------------------------------------------------------------
(* Properties of the response serializer *)

\* serialize_query_response returned Ok(QueryResponse)
Responded == pc = "done" /\ response.some /\ response.v.ok
RowSets == response.v.v
PlanQuery == query_plan.query
ProjectsFields == PlanQuery.fields.some
\* the row_sets array of the single response document of a variable-set query
DocumentRowSets == response_documents[1]["row_sets"].a

\* the row serialized from one MongoDB document under the plan's projection
RowOf(path, document) ==
    bson_to_json(type_for_row(path, PlanQuery.fields.v), BDoc(document)).v.o

C5_RowsAlwaysArray ==
    (Responded /\ ProjectsFields) =>
        \A i \in DOMAIN RowSets :
            /\ RowSets[i].rows.some
            /\ DOMAIN RowSets[i].rows.v = 1..Len(RowSets[i].rows.v)
            /\ (has_aggregates(PlanQuery) /\ ~has_variables(query_plan)
                /\ "rows" \notin DOMAIN response_documents[1]) =>
                    RowSets[i].rows = Some(<<>>)

\* an { aggregates } document without a rows key was serialized to an empty rows array
C5_Witness ==
    /\ Responded /\ ProjectsFields
    /\ has_aggregates(PlanQuery) /\ ~has_variables(query_plan)
    /\ "rows" \notin DOMAIN response_documents[1]
    /\ RowSets[1].rows = Some(<<>>)

\* C6 as claimed: aggregates is an object map in every RowSet of every response,
\* including for queries that request no aggregates.
C6_AggregatesAlwaysMap ==
    Responded => \A i \in DOMAIN RowSets : RowSets[i].aggregates.some

\* C6 amended: aggregates is an object map in every RowSet of a query that requests at
\* least one aggregate, and is absent (None) in every RowSet of a query that has no
\* aggregates selection.
C6_AggregatesMapIffRequested ==
    Responded =>
        \A i \in DOMAIN RowSets :
            /\ (PlanQuery.aggregates.some /\ DOMAIN PlanQuery.aggregates.v # {}) =>
                    RowSets[i].aggregates.some
            /\ ~PlanQuery.aggregates.some => RowSets[i].aggregates = None

\* both cases happen: a response with an aggregates map, one without
C6_Witness ==
    /\ Responded
    /\ Len(RowSets) = 2
    /\ PlanQuery.aggregates.some
    /\ RowSets[1].aggregates.some
    /\ "count" \in DOMAIN RowSets[1].aggregates.v

\* every row of every RowSet of the response satisfies P
AllRows(P(_)) ==
    \A i \in DOMAIN RowSets :
        RowSets[i].rows.some => \A j \in DOMAIN RowSets[i].rows.v : P(RowSets[i].rows.v[j])

RECURSIVE HasProjectedKeys(_, _)
RECURSIVE NestedHasProjectedKeys(_, _)
\* the JSON object has a key for every projected field, at every nesting level
HasProjectedKeys(object, query_fields) ==
    \A alias \in DOMAIN query_fields :
        /\ alias \in DOMAIN object
        /\ LET field == query_fields[alias]
           IN  CASE field.f = "Column" /\ field.fields.some ->
                        NestedHasProjectedKeys(object[alias], field.fields.v)
                 [] field.f = "Relationship" /\ field.fields.some ->
                        /\ "rows" \in DOMAIN object[alias].o
                        /\ \A j \in DOMAIN object[alias].o["rows"].a :
                                HasProjectedKeys(object[alias].o["rows"].a[j].o, field.fields.v)
                 [] OTHER -> TRUE

NestedHasProjectedKeys(json, nested) ==
    CASE json.j = "null" -> TRUE
      [] nested.n = "Object" -> json.j = "object" /\ HasProjectedKeys(json.o, nested.fields)
      [] nested.n = "Array" ->
            /\ json.j = "array"
            /\ \A j \in DOMAIN json.a : NestedHasProjectedKeys(json.a[j], nested.fields)

RowHasProjectedKeys(row) == HasProjectedKeys(row, PlanQuery.fields.v)

\* C7: whenever serialize_query_response succeeds, each serialized row contains every
\* key the plan's field selection projects, with an explicit null when the value is
\* absent from the document; no projected key is missing from a row.
C7_NoProjectedKeyMissing ==
    (Responded /\ ProjectsFields) => AllRows(RowHasProjectedKeys)

\* rows were serialized from documents lacking a projected (nullable) key, at the top
\* level (title) and inside a nested object (latlong): the key is there, holding null
C7_Witness ==
    /\ Responded /\ ProjectsFields
    /\ ~has_variables(query_plan) /\ ~has_aggregates(PlanQuery)
    /\ Len(response_documents) = 2
    /\ \/ /\ "title" \in DOMAIN PlanQuery.fields.v
          /\ "title" \notin DOMAIN response_documents[1]
          /\ RowSets[1].rows.v[1]["title"] = JNull
          /\ RowSets[1].rows.v[2]["title"] # JNull
       \/ /\ "address2" \in DOMAIN PlanQuery.fields.v
          /\ "latlong" \notin DOMAIN response_documents[1]["address2"].d
          /\ RowSets[1].rows.v[1]["address2"].o["latlong"] = JNull
          /\ RowSets[1].rows.v[2]["address2"].o["latlong"] # JNull

RECURSIVE KeyedByAliases(_, _)
RECURSIVE NestedKeyedByAliases(_, _)
\* every key of the JSON object is an alias of the selection, at every level
KeyedByAliases(object, query_fields) ==
    /\ DOMAIN object \subseteq DOMAIN query_fields
    /\ \A alias \in DOMAIN object :
        LET field == query_fields[alias]
        IN  CASE field.f = "Column" /\ field.fields.some ->
                    NestedKeyedByAliases(object[alias], field.fields.v)
              [] field.f = "Relationship" /\ field.fields.some ->
                    \A j \in DOMAIN object[alias].o["rows"].a :
                        KeyedByAliases(object[alias].o["rows"].a[j].o, field.fields.v)
              [] OTHER -> TRUE

NestedKeyedByAliases(json, nested) ==
    CASE json.j = "null" -> TRUE
      [] nested.n = "Object" -> json.j = "object" /\ KeyedByAliases(json.o, nested.fields)
      [] nested.n = "Array" ->
            /\ json.j = "array"
            /\ \A j \in DOMAIN json.a : NestedKeyedByAliases(json.a[j], nested.fields)

RECURSIVE TypeKeyedByAliases(_, _)
RECURSIVE NestedTypeKeyedByAliases(_, _)
\* the fields of the Object type are exactly the aliases of the selection, at every level
TypeKeyedByAliases(object_type, query_fields) ==
    /\ object_type.k = "Object"
    /\ DOMAIN object_type.fields = DOMAIN query_fields
    /\ \A alias \in DOMAIN query_fields :
        LET field == query_fields[alias]
        IN  CASE field.f = "Column" /\ field.fields.some ->
                    NestedTypeKeyedByAliases(object_type.fields[alias], field.fields.v)
              [] field.f = "Relationship" /\ field.fields.some ->
                    TypeKeyedByAliases(object_type.fields[alias].fields["rows"].t,
                                       field.fields.v)
              [] OTHER -> TRUE

NestedTypeKeyedByAliases(t, nested) ==
    CASE t.k = "Nullable" -> NestedTypeKeyedByAliases(t.t, nested)
      [] nested.n = "Object" -> TypeKeyedByAliases(t, nested.fields)
      [] nested.n = "Array" ->
            t.k = "ArrayOf" /\ NestedTypeKeyedByAliases(t.t, nested.fields)

RowKeyedByAliases(row) == KeyedByAliases(row, PlanQuery.fields.v)

\* C9: the row type synthesized by type_for_row, and so every serialized row, is keyed
\* by the request's field aliases at every nesting level, never by the underlying column
\* names; two aliases of one column give two keys, each shaped by its own selection.
C9_KeyedByAliases ==
    (pc = "done" /\ ProjectsFields) =>
        /\ TypeKeyedByAliases(type_for_row(<<>>, PlanQuery.fields.v), PlanQuery.fields.v)
        /\ Responded => AllRows(RowKeyedByAliases)

\* address1 and address2 both select column address: two keys, differently shaped
C9_Witness ==
    /\ Responded /\ ProjectsFields
    /\ Len(RowSets) = 1 /\ Len(RowSets[1].rows.v) = 1
    /\ {"address1", "address2"} \subseteq DOMAIN PlanQuery.fields.v
    /\ PlanQuery.fields.v["address1"].column = PlanQuery.fields.v["address2"].column
    /\ DOMAIN RowSets[1].rows.v[1] = {"address1", "address2"}
    /\ DOMAIN RowSets[1].rows.v[1]["address1"].o = {"line1"}
    /\ DOMAIN RowSets[1].rows.v[1]["address2"].o = {"latlong"}
    /\ DOMAIN RowSets[1].rows.v[1]["address2"].o["latlong"].o = {"long"}

-----------------------------------------------------------------------------
(* Properties of type synthesis for nested selections *)

\* C8: type_for_nested_field yields a Nullable type exactly when the parent column type
\* is nullable, for nested-object and nested-array selections alike: Nullable(Object) or
\* Nullable(ArrayOf) under a nullable parent, the bare Object or ArrayOf otherwise, and
\* never Nullable(Nullable(T)).
C8_NullableIffParentNullable ==
    (pc = "done" /\ nested_type.some) =>
        LET t == nested_type.v
            bare == IF nested_field.v.n = "Object" THEN "Object" ELSE "ArrayOf"
        IN  /\ t.k = "Nullable" <=> parent_type.v.k = "Nullable"
            /\ t.k = "Nullable" => t.t.k = bare
            /\ t.k # "Nullable" => t.k = bare

\* a nested-array selection under a nullable parent gave Nullable(ArrayOf(..))
C8_Witness ==
    /\ pc = "done" /\ nested_type.some
    /\ parent_type.v.k = "Nullable"
    /\ nested_field.v.n = "Array"
    /\ nested_type.v.k = "Nullable"
    /\ nested_type.v.t.k = "ArrayOf"

\* the type under every leading Nullable layer
RECURSIVE WithoutNullable(_)
WithoutNullable(t) == IF t.k = "Nullable" THEN WithoutNullable(t.t) ELSE t
\* the leading Nullable layers stripped, then one ArrayOf layer if there is one
ElementOf(t) ==
    LET inner == WithoutNullable(t)
    IN  IF inner.k = "ArrayOf" THEN inner.t ELSE inner

\* C25: element_type strips every leading Nullable layer and then exactly one ArrayOf
\* layer, returning the array's element type as is; a type that is no array under its
\* Nullable layers gives that inner type, a type without such layers is returned
\* unchanged. The element type of a nested-array selection is synthesized from it.
C25_ElementTypeStripsOneArray ==
    (pc = "done" /\ nested_type.some) =>
        LET parent == parent_type.v
            array == WithoutNullable(nested_type.v)
        IN  /\ element_type(parent) = ElementOf(parent)
            /\ parent.k \notin {"Nullable", "ArrayOf"} => element_type(parent) = parent
            /\ parent.k = "ArrayOf" => element_type(parent) = parent.t
            /\ nested_field.v.n = "Array" =>
                    array.t = type_for_nested_field(<<"authors", "[]">>, ElementOf(parent),
                                                    nested_field.v.fields)

\* Nullable(ArrayOf(ArrayOf(String))) gives ArrayOf(String)
C25_Witness ==
    /\ pc = "done" /\ nested_type.some
    /\ parent_type.v = TNullable(TArrayOf(TArrayOf(StringT)))
    /\ nested_field.v.n = "Array"
    /\ element_type(parent_type.v) = TArrayOf(StringT)

-----------------------------------------------------------------------------
(* Properties of the foreach / variable-set fan-out *)

\* pipeline_for_foreach returned Ok(Pipeline)
Compiled == foreachPipeline.some /\ foreachPipeline.v.ok
Stages == foreachPipeline.v.v.stages
Request == queryRequest.v
HasForeachList == Request.foreach.some /\ Request.foreach.v.some
\* the number of variants of the request: elements of its foreach list, else of its
\* variables list
RequestVariants ==
    IF HasForeachList THEN Len(Request.foreach.v.v) ELSE Len(Request.variables.v)
BranchName(i) == "__FACET___" \o ToString(i)

\* C1: for a request with n variants (n >= 0) pipeline_for_foreach returns exactly two
\* stages: a $facet with exactly the n branches __FACET___0 .. __FACET___(n-1), then a
\* $replaceWith whose row_sets array has n entries, entry i being "$__FACET___i" in the
\* index order of the variants.
C1_FacetThenRowSets ==
    Compiled =>
        LET n == RequestVariants
        IN  /\ Len(Stages) = 2
            /\ Stages[1].stage = "$facet"
            /\ DOMAIN Stages[1].queries = {BranchName(i) : i \in 0..(n - 1)}
            /\ Cardinality(DOMAIN Stages[1].queries) = n
            /\ Stages[2].stage = "$replaceWith"
            /\ DOMAIN Stages[2].selection = {"row_sets"}
            /\ Stages[2].selection["row_sets"] =
                    BArr([i \in 1..n |-> BStr("$" \o BranchName(i - 1))])

\* a request of two variants was compiled to two distinct branches
C1_Witness ==
    /\ Compiled
    /\ RequestVariants = 2
    /\ DOMAIN Stages[1].queries = {"__FACET___0", "__FACET___1"}
    /\ Stages[2].selection["row_sets"].a = <<BStr("$__FACET___0"), BStr("$__FACET___1")>>

\* whether a document satisfies an Expression under a binding of the variables
RECURSIVE satisfies(_, _, _)
satisfies(expression, binding, document) ==
    IF expression.e = "And"
    THEN \A i \in DOMAIN expression.expressions :
            satisfies(expression.expressions[i], binding, document)
    ELSE LET wanted == IF expression.value.c = "Variable"
                       THEN binding[expression.value.name]
                       ELSE expression.value.value
         IN  /\ expression.column.name \in DOMAIN document
             /\ document[expression.column.name] = BInt(wanted)

\* the JSON of a column of a track; a track without the column gives null
ProjectedValue(document, column) ==
    IF column \notin DOMAIN document THEN JNull
    ELSE IF document[column].b = "Int32" THEN JNum(document[column].v)
    ELSE JStr(document[column].v)

\* the rows of the request's query over the tracks under one binding of the variables
ExpectedRows(binding) ==
    LET Selected(document) ==
            Request.query.where.some => satisfies(Request.query.where.v, binding, document)
        selected == SelectSeq(Tracks, Selected)
        fields == Request.query.fields.v
    IN  [i \in DOMAIN selected |->
            [alias \in DOMAIN fields |-> ProjectedValue(selected[i], fields[alias].column)]]

VariablesResponded == pc = "responded" /\ response.some /\ response.v.ok

RECURSIVE Constraints(_)
Constraints(query) ==
    UNION {IF key = "$and"
           THEN UNION {Constraints(query[key].a[i].d) : i \in DOMAIN query[key].a}
           ELSE {<<key, query[key].d["$eq"]>>} : key \in DOMAIN query}

BranchConstraints(branch) ==
    IF branch.stages[1].stage = "$match" THEN Constraints(branch.stages[1].query) ELSE {}

ElementConstraints(element) ==
    {<<column, BInt(element[column].value)>> : column \in DOMAIN element}

\* the request with the constraints of one foreach element added to its where-clause
WithElement(element, order) ==
    [Request EXCEPT !.query.where =
        Some(IF @.some THEN And(<<@.v, make_expression(element, order)>>)
             ELSE make_expression(element, order))]

\* C3: every branch i is compiled from its own copy of the request. For a foreach
\* element the copy's where-clause is (original where AND the element's column
\* equalities), or just the element's equalities when the request has no where-clause,
\* compiled with no variable set; for a variable set the copy is the request unchanged,
\* compiled under that set. A branch carries the constraints of its own element and of
\* the original where-clause and of no other element; the request itself never changes.
C3_BranchPerFreshCopy ==
    /\ [](Compiled =>
            \A i \in 1..RequestVariants :
                LET branch == Stages[1].queries[BranchName(i - 1)]
                IN  IF HasForeachList
                    THEN LET element == Request.foreach.v.v[i]
                         IN  /\ \E order \in KeyOrders(DOMAIN element) :
                                    Ok(branch) = pipeline_for_non_foreach(
                                        DefaultConfiguration, None, WithElement(element, order))
                             /\ BranchConstraints(branch) =
                                    ElementConstraints(element) \cup
                                    BranchConstraints(pipeline_for_non_foreach(
                                        DefaultConfiguration, None, Request).v)
                    ELSE Ok(branch) = pipeline_for_non_foreach(
                            DefaultConfiguration, Some(Request.variables.v[i]), Request))
    /\ [][queryRequest' = queryRequest]_vars

\* a request with a where-clause and two foreach elements of different constraints
C3_Witness ==
    /\ Compiled
    /\ HasForeachList
    /\ Request.query.where.some
    /\ Len(Request.foreach.v.v) = 2
    /\ DOMAIN Request.foreach.v.v[1] = {"artistId"}
    /\ DOMAIN Request.foreach.v.v[2] = {"artistId", "albumId"}
    /\ BranchConstraints(Stages[1].queries["__FACET___0"]) =
            {<<"albumId", BInt(1)>>, <<"artistId", BInt(1)>>}
    /\ BranchConstraints(Stages[1].queries["__FACET___1"]) =
            {<<"albumId", BInt(1)>>, <<"artistId", BInt(1)>>, <<"albumId", BInt(4)>>}

-----------------------------------------------------------------------------
(* Properties of configuration validation *)

Validated == pc = "validated" /\ validated.some
Files == serialized.v

\* how many of the schema, the native mutations and the native queries define the name
DefinitionCount(name) ==
    (IF name \in DOMAIN Files.schema.object_types THEN 1 ELSE 0)
    + Cardinality({m \in DOMAIN Files.native_mutations :
                        name \in DOMAIN Files.native_mutations[m].object_types})
    + Cardinality({q \in DOMAIN Files.native_queries :
                        name \in DOMAIN Files.native_queries[q].object_types})

DuplicatedNames == {name \in ObjectTypeNames : DefinitionCount(name) > 1}

MultipleDefinitions ==
    "configuration contains multiple definitions for these object type names: {}"

\* C10: when an object-type name is defined more than once across the schema, the
\* native mutations and the native queries (two native queries or two native mutations
\* included), validate returns an error and no Configuration; the error carries the
\* "multiple definitions" message, which names every duplicated type name.
C10_DuplicateObjectTypesRejected ==
    (Validated /\ DuplicatedNames # {}) =>
        /\ ~validated.v.ok
        /\ \E i \in DOMAIN validated.v.err.arguments :
                /\ validated.v.err.arguments[i].text = MultipleDefinitions
                /\ Range(validated.v.err.arguments[i].arguments) = DuplicatedNames

\* two native queries define Album, which neither the schema nor a native mutation
\* defines; validation failed naming Album
C10_Witness ==
    /\ Validated
    /\ DOMAIN Files.native_queries = {"q1", "q2"}
    /\ \A q \in {"q1", "q2"} : DOMAIN Files.native_queries[q].object_types = {"Album"}
    /\ DOMAIN Files.schema.object_types = {"Artist"}
    /\ \A m \in DOMAIN Files.native_mutations :
            Files.native_mutations[m].object_types = EmptyMap
    /\ ~validated.v.ok
    /\ validated.v.err.arguments[1] = anyhow(MultipleDefinitions, <<"Album">>)

Accepted == Validated /\ validated.v.ok
Rejected == Validated /\ ~validated.v.ok
Config == validated.v.v
\* the bullets of the error report
Bullets == validated.v.err.arguments
CollectionQueries ==
    {q \in DOMAIN Files.native_queries : Files.native_queries[q].representation = "Collection"}
FunctionQueries ==
    {q \in DOMAIN Files.native_queries : Files.native_queries[q].representation = "Function"}

NotDefined == "configuration references an object type named {}, but it is not defined"

\* C11: an input in which a collection-representation native query has the name of a
\* schema collection is rejected with an error naming that collection, and a returned
\* Configuration keeps the definition of every schema collection and of every
\* collection-representation native query.
C11_DuplicateCollectionsRejected ==
    Validated =>
        /\ \A name \in DOMAIN Files.schema.collections \cap CollectionQueries :
                /\ ~validated.v.ok
                /\ \E i \in DOMAIN Bullets : name \in Range(Bullets[i].arguments)
        /\ validated.v.ok =>
                /\ \A name \in DOMAIN Files.schema.collections :
                        Config.collections[name].collection_type =
                            Files.schema.collections[name].type
                /\ \A q \in CollectionQueries :
                        Config.collections[q].collection_type =
                            Files.native_queries[q].result_document_type

\* the names defined by the schema, a native mutation or a native query
DefinedNames == {name \in ObjectTypeNames : DefinitionCount(name) > 0}

\* the object type names referenced by a collection or by a native query's result
ReferencedNames ==
    {Files.schema.collections[c].type : c \in DOMAIN Files.schema.collections}
    \cup {Files.native_queries[q].result_document_type : q \in DOMAIN Files.native_queries}

\* C12: validate fails with the undefined-object-type error whenever a collection type
\* or a native query result type names an object type that is not in the merged table,
\* and no returned Configuration has a collection of an undefined object type.
C12_UndefinedObjectTypesRejected ==
    Validated =>
        /\ \A name \in ReferencedNames \ DefinedNames :
                /\ ~validated.v.ok
                /\ \E i \in DOMAIN Bullets : Bullets[i] = anyhow(NotDefined, <<name>>)
        /\ validated.v.ok =>
                \A c \in DOMAIN Config.collections :
                    Config.collections[c].collection_type \in DOMAIN Config.object_types

\* position of a key in the order in which a BTreeMap iterates
KeyIndex(key) == CHOOSE i \in DOMAIN KeyOrdering : KeyOrdering[i] = key

Greatest(keys) == CHOOSE key \in keys : \A other \in keys : KeyIndex(other) <= KeyIndex(key)

\* the definition of a name kept in the merged table: the one of the last native query
\* that defines it, else of the last native mutation, else the schema's
MergedDefinition(name) ==
    LET queries == {q \in DOMAIN Files.native_queries :
                        name \in DOMAIN Files.native_queries[q].object_types}
        mutations == {m \in DOMAIN Files.native_mutations :
                        name \in DOMAIN Files.native_mutations[m].object_types}
    IN  IF queries # {} THEN Files.native_queries[Greatest(queries)].object_types[name]
        ELSE IF mutations # {}
        THEN Files.native_mutations[Greatest(mutations)].object_types[name]
        ELSE Files.schema.object_types[name]

ResultTypeOf(q) == Files.native_queries[q].result_document_type

\* the result document type is a defined object type whose only field is __value
SingleValueResult(q) ==
    /\ ResultTypeOf(q) \in DefinedNames
    /\ DOMAIN MergedDefinition(ResultTypeOf(q)).fields = {"__value"}

\* C13: a function-representation native query is accepted only when its result
\* document type is a defined object type with the single field __value; otherwise
\* validation fails with an error naming the native query; the result type of an
\* accepted function is the type of that __value field.
C13_FunctionsNeedSingleValueField ==
    Validated =>
        /\ \A q \in FunctionQueries :
                ~SingleValueResult(q) =>
                    /\ ~validated.v.ok
                    /\ \E i \in DOMAIN Bullets : q \in Range(Bullets[i].arguments)
        /\ validated.v.ok =>
                \A q \in FunctionQueries :
                    Config.functions[q][1].result_type =
                        MergedDefinition(ResultTypeOf(q)).fields["__value"]

\* the functions validate finds invalid: the result document type is undefined or its
\* object type has no __value field
InvalidFunctions ==
    {q \in FunctionQueries :
        \/ ResultTypeOf(q) \notin DefinedNames
        \/ "__value" \notin DOMAIN MergedDefinition(ResultTypeOf(q)).fields}

\* the bullet reported for an invalid function
IsBulletOf(bullet, q) ==
    IF ResultTypeOf(q) \in DefinedNames
    THEN bullet.arguments = <<q>> /\ bullet.text # NotDefined /\ bullet.text # MultipleDefinitions
    ELSE bullet = anyhow(NotDefined, <<ResultTypeOf(q)>>)

\* C14: validation does not stop at the first defect: with duplicate object-type names
\* and k invalid function-representation native queries, the single error has k + 1
\* bullets, the first for the duplicate names and one for each invalid function, in
\* the order of the functions' names.
C14_EveryDefectReported ==
    (Validated /\ DuplicatedNames # {}) =>
        /\ ~validated.v.ok
        /\ Len(Bullets) = 1 + Cardinality(InvalidFunctions)
        /\ Bullets[1].text = MultipleDefinitions
        /\ \A q \in InvalidFunctions :
                \E i \in 2..Len(Bullets) :
                    /\ IsBulletOf(Bullets[i], q)
                    /\ i = 1 + Cardinality({other \in InvalidFunctions :
                                                KeyIndex(other) <= KeyIndex(q)})

\* duplicate definitions of Album, none of them with a __value field, and two functions
\* whose result type is Album: three bullets
C14_Witness ==
    /\ Rejected
    /\ DuplicatedNames = {"Album"}
    /\ InvalidFunctions = {"q1", "q2"}
    /\ Len(Bullets) = 3
    /\ Bullets[1] = anyhow(MultipleDefinitions, <<"Album">>)
    /\ Bullets[2].arguments = <<"q1">>
    /\ Bullets[3].arguments = <<"q2">>

-----------------------------------------------------------------------------
(* Properties of argument resolution *)

\* resolve_arguments has returned
Resolved == pc = "resolved" /\ resolution.some
Parameters == argumentCall.v.parameters
GivenArguments == argumentCall.v.arguments
\* the arguments without a declared parameter, the parameters without an argument
ExcessNames == DOMAIN GivenArguments \ DOMAIN Parameters
MissingNames == DOMAIN Parameters \ DOMAIN GivenArguments
\* a literal argument of a declared parameter converts under the parameter's type
Converts(name) ==
    GivenArguments[name].type = "literal" =>
        json_to_bson(Parameters[name], GivenArguments[name].value).ok
InvalidNames == {name \in DOMAIN Parameters \cap DOMAIN GivenArguments : ~Converts(name)}
\* the sequence lists every name of the set once
Lists(listed, names) == Range(listed) = names /\ Len(listed) = Cardinality(names)
\* the error is of the kind and lists every name of the set
Reports(result, kind, names) ==
    /\ ~result.ok
    /\ result.err.error = kind
    /\ Lists(result.err.names, names)
\* success only for equal name sets and convertible literals, with one BSON value per
\* declared parameter
SucceedsOnlyWhenBound(result) ==
    /\ result.ok <=> (DOMAIN GivenArguments = DOMAIN Parameters /\ InvalidNames = {})
    /\ result.ok =>
        /\ DOMAIN result.v = DOMAIN Parameters
        /\ \A name \in DOMAIN Parameters :
            result.v[name] = argument_to_mongodb_expression(GivenArguments[name],
                                                            Parameters[name]).v

Covered(error) ==
    IF error.error = "Invalid" THEN DOMAIN error.errors ELSE Range(error.names)
DefectKinds ==
    {kind \in {"Excess", "Missing", "Invalid"} :
        \/ kind = "Excess" /\ ExcessNames # {}
        \/ kind = "Missing" /\ MissingNames # {}
        \/ kind = "Invalid" /\ InvalidNames # {}}

\* C17: a call with argument-binding defects of more than one kind is answered with one
\* error that covers every defect of the call.
C17_DefectsReportedTogether ==
    (Resolved /\ Cardinality(DefectKinds) > 1) =>
        /\ ~resolution.v.ok
        /\ (ExcessNames \cup MissingNames \cup InvalidNames) \subseteq
                Covered(resolution.v.err)

-----------------------------------------------------------------------------
(* Properties of the comparison functions *)

ComparedFunction == comparison.v.function
\* the operator the function is written with
Operator(f) ==
    CASE f = "LessThan" -> "$lt"
      [] f = "LessThanOrEqual" -> "$lte"
      [] f = "GreaterThan" -> "$gt"
      [] f = "GreaterThanOrEqual" -> "$gte"
      [] f = "Equal" -> "$eq"
      [] f = "NotEqual" -> "$ne"
      [] f = "Regex" -> "$regex"
\* Regex for IRegex and IRegex for Regex
OtherRegex(f) == IF f = "Regex" THEN "IRegex" ELSE "Regex"

\* C18: the match query of function f on column c with value v is { c: { op(f): v } };
\* for IRegex it is { c: { $regex: v, $options: "i" } }, and only IRegex carries $options.
C18_MatchQueryForm ==
    matchQuery.some =>
        LET c == comparison.v.column
            v == comparison.v.value
            query == matchQuery.v
        IN  /\ DOMAIN query = {c}
            /\ query[c] = IF ComparedFunction = "IRegex"
                          THEN BDoc(("$regex" :> v) @@ ("$options" :> BStr("i")))
                          ELSE BDoc(Operator(ComparedFunction) :> v)
            /\ ("$options" \in DOMAIN query[c].d) <=> ComparedFunction = "IRegex"

C18_Witness ==
    /\ matchQuery.some
    /\ ComparedFunction = "IRegex"
    /\ matchQuery.v[comparison.v.column].d["$options"] = BStr("i")

\* C19: the aggregation expression of function f is { op(f): [column, value] } for the
\* six equality and ordering functions, { $regexMatch: { input, regex } } for Regex and
\* the same with options "i" for IRegex; Regex and IRegex have the same MongoDB name but
\* their outputs differ in the match-query form and in the aggregation form.
C19_AggregationExpressionForm ==
    aggregationExpression.some =>
        LET c == comparison.v.column
            column == BStr("$" \o c)
            v == comparison.v.value
            expression == aggregationExpression.v
            regex_match == ("input" :> column) @@ ("regex" :> v)
        IN  /\ ComparedFunction \notin {"Regex", "IRegex"} =>
                    expression = (Operator(ComparedFunction) :> BArr(<<column, v>>))
            /\ ComparedFunction = "Regex" =>
                    expression = ("$regexMatch" :> BDoc(regex_match))
            /\ ComparedFunction = "IRegex" =>
                    expression =
                        ("$regexMatch" :> BDoc(regex_match @@ ("options" :> BStr("i"))))
            /\ ComparedFunction \in {"Regex", "IRegex"} =>
                    /\ mongodb_name(ComparedFunction) = "$regex"
                    /\ expression #
                        mongodb_aggregation_expression(OtherRegex(ComparedFunction),
                                                       column, v)
                    /\ matchQuery.some =>
                        matchQuery.v #
                            mongodb_match_query(OtherRegex(ComparedFunction), c, v)

C19_Witness ==
    /\ aggregationExpression.some
    /\ matchQuery.some
    /\ ComparedFunction = "IRegex"
    /\ "options" \in DOMAIN aggregationExpression.v["$regexMatch"].d

-----------------------------------------------------------------------------
(* Properties of the published scalar types *)

\* C20: for every published scalar type (each BSON scalar kind and ExtendedJSON) count is
\* always offered, min and max exactly if the type is orderable, avg and sum exactly if
\* it is numeric; count's result type is Int, that of the others the scalar type itself.
C20_AggregateFunctionsOfEveryScalar ==
    pc = "looked up" =>
        LET t == aggregateLookup.v.scalar_type
            f == aggregateLookup.v.function
            definition == aggregateDefinition.v
            offered ==
                \/ f = "count"
                \/ f \in {"min", "max"} /\ is_orderable(t)
                \/ f \in {"avg", "sum"} /\ is_numeric(t)
        IN  /\ definition.some <=> offered
            /\ definition.some =>
                    definition.v.result_type =
                        [type |-> "named", name |-> IF f = "count" THEN "Int" ELSE t]

\* C21: for each BSON scalar type _eq and _neq are published exactly if the type is
\* comparable, _lt, _lte, _gt and _gte exactly if it is orderable, _regex and _iregex for
\* String only; _eq is the built-in Equal definition and every other operator a Custom one
\* whose argument type is the scalar type itself (String for the regex operators).
C21_ComparisonOperatorsOfBsonScalars ==
    (pc = "operator looked up" /\ operatorLookup.v.scalar_type # EXTENDED_JSON_TYPE_NAME) =>
        LET t == operatorLookup.v.scalar_type
            o == operatorLookup.v.operator
            definition == operatorDefinition.v
            offered ==
                \/ o \in {"_eq", "_neq"} /\ is_comparable(t)
                \/ o \in {"_lt", "_lte", "_gt", "_gte"} /\ is_orderable(t)
                \/ o \in {"_regex", "_iregex"} /\ t = "String"
        IN  /\ definition.some <=> offered
            /\ definition.some =>
                    IF o = "_eq" THEN definition.v = [type |-> "equal"]
                    ELSE definition.v =
                            [type |-> "custom",
                             argument_type |-> [type |-> "named", name |-> t]]

\* _iregex looked up on String: a Custom operator over String
C21_Witness ==
    /\ pc = "operator looked up"
    /\ operatorLookup.v = [scalar_type |-> "String", operator |-> "_iregex"]
    /\ operatorDefinition.v.some
    /\ operatorDefinition.v.v.type = "custom"

-----------------------------------------------------------------------------
(* Properties of variable arguments *)

\* the parameters bound to a variable argument
VariableBound ==
    {name \in DOMAIN Parameters \cap DOMAIN GivenArguments :
        GivenArguments[name].type = "variable"}

\* C22: a variable argument resolves to "$$" followed by the mangled name of (variable
\* name, parameter type); the same variable at two different types gives two distinct
\* references, at the same type the identical reference; resolving a variable argument
\* never fails.
C22_VariableReferences ==
    Resolved =>
        /\ resolution.v.ok =>
            \A n1, n2 \in VariableBound :
                /\ resolution.v.v[n1] =
                        BStr("$$" \o query_variable_name(GivenArguments[n1].name,
                                                         Parameters[n1]))
                /\ GivenArguments[n1].name = GivenArguments[n2].name =>
                        (resolution.v.v[n1] = resolution.v.v[n2]
                            <=> Parameters[n1] = Parameters[n2])
        /\ (~resolution.v.ok /\ resolution.v.err.error = "Invalid") =>
                DOMAIN resolution.v.err.errors \cap VariableBound = {}
        /\ (DOMAIN GivenArguments = DOMAIN Parameters
                /\ VariableBound = DOMAIN Parameters) => resolution.v.ok

\* the variable v bound to a parameter of type Int and to one of type String
C22_Witness ==
    /\ Resolved
    /\ resolution.v.ok
    /\ \E n1, n2 \in VariableBound :
        /\ GivenArguments[n1].name = GivenArguments[n2].name
        /\ Parameters[n1] # Parameters[n2]
        /\ resolution.v.v[n1] # resolution.v.v[n2]

\* C30: resolve_arguments returns only the first kind of error that applies, in a fixed
\* order: Excess whenever an argument has no declared parameter, whatever else is wrong;
\* otherwise Missing whenever a parameter has no argument; otherwise Invalid, whose map
\* has every argument whose literal failed to convert and no argument that converted.
C30_FirstErrorKindOnly ==
    Resolved =>
        /\ ExcessNames # {} =>
                /\ ~resolution.v.ok
                /\ resolution.v.err.error = "Excess"
        /\ (ExcessNames = {} /\ MissingNames # {}) =>
                /\ ~resolution.v.ok
                /\ resolution.v.err.error = "Missing"
        /\ (ExcessNames = {} /\ MissingNames = {} /\ InvalidNames # {}) =>
                /\ ~resolution.v.ok
                /\ resolution.v.err.error = "Invalid"
                /\ DOMAIN resolution.v.err.errors = InvalidNames
        /\ (~resolution.v.ok /\ resolution.v.err.error = "Invalid") =>
                /\ ExcessNames = {}
                /\ MissingNames = {}
                /\ \A name \in DOMAIN Parameters :
                        name \in DOMAIN resolution.v.err.errors <=> ~Converts(name)

\* an excess argument, a missing parameter and an invalid literal meet in one call:
\* Excess alone is returned
C30_Witness ==
    /\ Resolved
    /\ MissingNames # {}
    /\ InvalidNames # {}
    /\ ~resolution.v.ok
    /\ resolution.v.err.error = "Excess"

-----------------------------------------------------------------------------
(* Properties of the names of the comparison functions *)

\* C26: the GraphQL names of the eight comparison functions are pairwise distinct and
\* from_graphql_name(f.graphql_name()) = f for each of them; for a string that is none of
\* the eight names from_graphql_name returns UnknownComparisonOperator with that string.
C26_GraphqlNamesRoundTrip ==
    parsedFunction.some =>
        /\ Len(ComparisonFunction) = 8
        /\ \A f, g \in Range(ComparisonFunction) :
                comparison_graphql_name(f) = comparison_graphql_name(g) => f = g
        /\ \A f \in Range(ComparisonFunction) :
                operatorName.v = comparison_graphql_name(f) => parsedFunction.v = Ok(f)
        /\ operatorName.v \notin {"_lt", "_lte", "_gt", "_gte", "_eq", "_neq", "_regex",
                                  "_iregex"} =>
                parsedFunction.v = Err(UnknownComparisonOperator(operatorName.v))

\* the name of IRegex is read back as IRegex
C26_Witness ==
    /\ parsedFunction.some
    /\ operatorName.v = comparison_graphql_name("IRegex")
    /\ parsedFunction.v = Ok("IRegex")

-----------------------------------------------------------------------------
(* Properties of the response serializer: the response document and its errors *)

\* serialize_query_response has returned
Serialized == pc = "done" /\ response.some
\* the plan has variables or the query has aggregates
NeedsSingleDocument == has_variables(query_plan) \/ has_aggregates(PlanQuery)
\* the shape the single response document is read as
ExpectedShape ==
    IF has_variables(query_plan) /\ has_aggregates(PlanQuery)
    THEN "ResponseForVariableSetsAggregates"
    ELSE IF has_variables(query_plan) THEN "ResponseForVariableSetsRowsOnly"
    ELSE "BsonRowSet"
\* what is returned when a response document is required
SingleDocumentRequired ==
    /\ (NeedsSingleDocument /\ response_documents = <<>>) =>
            response.v = Err("ExpectedSingleDocument")
    /\ (NeedsSingleDocument /\ response_documents # <<>>
            /\ ~from_document(ExpectedShape, BDoc(response_documents[1])).ok) =>
            response.v = Err("BsonDeserialization")

\* C23, as stated: with variables or aggregates an empty document list gives
\* ExpectedSingleDocument and a first document of another shape BsonDeserialization; with
\* neither, an empty document list gives one RowSet with an empty rows array and no error.
C23_EmptyListGivesEmptyRows ==
    Serialized =>
        /\ SingleDocumentRequired
        /\ (~NeedsSingleDocument /\ response_documents = <<>>) =>
                /\ response.v.ok
                /\ Len(response.v.v) = 1
                /\ response.v.v[1].rows = Some(<<>>)

\* C23, amended: with variables or aggregates an empty document list gives
\* ExpectedSingleDocument and a first document of another shape BsonDeserialization; with
\* neither, an empty document list gives one RowSet and no error, its rows an empty array
\* if the query selects fields and absent if it selects none.
C23_EmptyListGivesEmptyRowsOfSelectedFields ==
    Serialized =>
        /\ SingleDocumentRequired
        /\ (~NeedsSingleDocument /\ response_documents = <<>>) =>
                /\ response.v.ok
                /\ Len(response.v.v) = 1
                /\ response.v.v[1].rows = IF ProjectsFields THEN Some(<<>>) ELSE None

\* an aggregates query answered with no document at all
C23_Witness ==
    /\ Serialized
    /\ has_aggregates(PlanQuery)
    /\ response_documents = <<>>
    /\ response.v = Err("ExpectedSingleDocument")

\* the aliases of the plan's fields that are relationships with no fields selected
UnselectedRelationships ==
    IF ProjectsFields
    THEN {alias \in DOMAIN PlanQuery.fields.v :
            /\ PlanQuery.fields.v[alias].f = "Relationship"
            /\ ~PlanQuery.fields.v[alias].fields.some}
    ELSE {}

\* C24: when a field of the query is a relationship from which no fields are selected,
\* serialization fails with NoFieldsSelected carrying the path of that field.
C24_UnselectedRelationshipRejected ==
    (Serialized /\ UnselectedRelationships # {}) =>
        /\ ~response.v.ok
        /\ response.v.err = "NoFieldsSelected"
        /\ \E alias \in UnselectedRelationships :
                response.v = ErrAt("NoFieldsSelected", <<alias>>)

\* the path given to the serializer of one row set
RowSetPath == IF has_variables(query_plan) THEN <<query_plan.collection>> ELSE <<>>

\* the row sets read from the response document of a query with aggregates
ReadRowSets ==
    IF ~has_aggregates(PlanQuery) \/ response_documents = <<>> THEN None
    ELSE LET read == from_document(ExpectedShape, BDoc(response_documents[1]))
         IN  IF ~read.ok THEN None
             ELSE IF has_variables(query_plan) THEN Some(read.v.row_sets)
             ELSE Some(<<read.v>>)

\* the row sets whose aggregates value is absent or not a document, every earlier row
\* set being serialized without error
NotObjectRowSets ==
    IF ReadRowSets.some
    THEN {i \in DOMAIN ReadRowSets.v :
            /\ ReadRowSets.v[i].aggregates.b # "Document"
            /\ \A j \in 1..(i - 1) :
                    serialize_row_set_with_aggregates(
                        RowSetPath, PlanQuery, ReadRowSets.v[j]).ok}
    ELSE {}

\* C28: when the query requests aggregates and the aggregates value of a row set of the
\* response is absent or is not a document (null, a number, an array), serialization
\* fails with AggregatesNotObject carrying the row-set path and produces no RowSet.
C28_AggregatesNotObjectRejected ==
    (Serialized /\ NotObjectRowSets # {}) =>
        response.v = ErrAt("AggregatesNotObject", RowSetPath)

\* the aggregates document of row set i, each value in canonical extended JSON
ReturnedAggregates(i) ==
    LET returned == ReadRowSets.v[i].aggregates.d
    IN  [key \in DOMAIN returned |-> into_canonical_extjson(returned[key])]

\* C27: the aggregates of a serialized RowSet have exactly the keys of the aggregates
\* document MongoDB returned, each value in canonical extended JSON, whatever aggregate
\* names the query requested: requested names are not added and do not filter.
C27_AggregatesAsReturned ==
    (Serialized /\ response.v.ok /\ ReadRowSets.some) =>
        /\ Len(response.v.v) = Len(ReadRowSets.v)
        /\ \A i \in DOMAIN ReadRowSets.v :
                ReadRowSets.v[i].aggregates.b = "Document" =>
                    response.v.v[i].aggregates = Some(ReturnedAggregates(i))

\* count was requested, the document returned average and total instead
C27_Witness ==
    /\ Serialized
    /\ response.v.ok
    /\ ReadRowSets.some
    /\ DOMAIN PlanQuery.aggregates.v = {"count"}
    /\ ReadRowSets.v[1].aggregates = BDoc([average |-> BDouble(2), total |-> BInt(5)])
    /\ response.v.v[1].aggregates =
            Some([average |-> JObj("$numberDouble" :> JStr("2")),
                  total |-> JObj("$numberInt" :> JStr("5"))])

-----------------------------------------------------------------------------
(* foreach_variants over every combination of a foreach list and a variables list *)

\* requests with foreach absent, null or a list, and variables absent or a list
AnyQueryRequests ==
    {[foreach |-> fe, variables |-> vs, target |-> "tracks",
      query |-> [fields |-> Some(fs), where |-> wh, aggregates |-> None]] :
        fe \in {None, Some(None)}
                \cup {Some(Some(each)) : each \in SeqsUpTo(ForeachElements, MaxVariants)},
        vs \in {None} \cup {Some(sets) : sets \in SeqsUpTo(VariableSets, MaxVariants)},
        fs \in RequestFields, wh \in RequestWheres}

InitForeachVariants ==
    /\ pc = "start"
    /\ queryRequest \in {Some(request) : request \in AnyQueryRequests}
    /\ query_plan = PlanFor(queryRequest.v)
    /\ foreachVariants = None
    /\ foreachPipeline = None
    /\ response_documents = <<>>
    /\ response = None
    /\ TypesIdle
    /\ ConfigIdle
    /\ CapabilitiesIdle

NextForeachVariants == ForeachVariants

SpecForeachVariants == InitForeachVariants /\ [][NextForeachVariants]_vars

\* foreach_variants has returned
VariantsReturned == pc = "variants"

\* variant i is the predicate made of element i of the foreach list
PredicateOf(i) ==
    LET element == Request.foreach.v.v[i]
    IN  \E order \in KeyOrders(DOMAIN element) :
            foreachVariants.v[i] = Predicate(make_expression(element, order))

\* C29: foreach_variants returns None exactly when the request has neither a non-null
\* foreach list nor a variables list; a foreach list wins over variables, which are then
\* ignored; a null foreach leaves the variables list in use. The result has the length
\* and order of the chosen list and its elements are all Predicate or all VariableSet.
C29_ForeachListWins ==
    VariantsReturned =>
        /\ foreachVariants = None <=> (~HasForeachList /\ ~Request.variables.some)
        /\ HasForeachList =>
                /\ foreachVariants.some
                /\ Len(foreachVariants.v) = Len(Request.foreach.v.v)
                /\ \A i \in DOMAIN foreachVariants.v : PredicateOf(i)
        /\ (~HasForeachList /\ Request.variables.some) =>
                /\ foreachVariants.some
                /\ Len(foreachVariants.v) = Len(Request.variables.v)
                /\ \A i \in DOMAIN foreachVariants.v :
                        foreachVariants.v[i] = VariableSet(Request.variables.v[i])

\* a request with a foreach list of two elements and a variables list of one set
C29_Witness ==
    /\ VariantsReturned
    /\ HasForeachList
    /\ Request.variables.some
    /\ Len(Request.foreach.v.v) = 2
    /\ Request.foreach.v.v[1] # Request.foreach.v.v[2]
    /\ Len(Request.variables.v) = 1
    /\ foreachVariants.some
    /\ Len(foreachVariants.v) = 2
    /\ \A i \in 1..2 : foreachVariants.v[i].variant = "Predicate"

====
